---- MODULE Spec2Model ----
(***************************************************************************)
(* TraitSelector (core/TraitSelector.ts): the combination generation       *)
(* engine.  One call of generateCombinations(count) on a fresh selector:   *)
(* rounds of concurrent attempts, each attempt walking the categories of   *)
(* trait_processing_order through the rule pipeline and the weighted       *)
(* sampler, then the settlement loop that accepts, rejects or discards.    *)
(*                                                                         *)
(* Strings.  A configuration key such as "bg:Red" is kept as the sequence  *)
(* of its ':'-separated parts (<<"bg","Red">>, or <<"Red">> for a bare     *)
(* name), which is what key.split(':') yields; a trait name is kept as the *)
(* sequence of its '#'-separated parts (<<"Human","1">> for "Human#1"),    *)
(* which is what name.split('#') yields.  Category and option names of the *)
(* model hold no ':' and no surrounding blanks, so `${type}:${name}` is    *)
(* the two-part key <<type, name>> and trim() changes nothing.             *)
(*                                                                         *)
(* Around it: the Generator's three paths into generateCombinations        *)
(* (SpecGenerator), the LayerProcessor's validation state and trait cache  *)
(* (SpecLayers), and the methods checked on their own over bounded inputs: *)
(* loopFramesToRequiredCount (SpecFrames), weightedRandomSelect            *)
(* (SpecSampler), calculateFinalRarities (SpecRarity), parseTraitType      *)
(* (SpecFolder), ConfigValidator.validate (SpecConfig), the two candidate  *)
(* filters (SpecFilters); the phases of Generator.generate (SpecPhases)    *)
(* and rounds of up to 50 attempts (SpecWide, SpecScenario); the layers    *)
(* directory parsed into the hierarchy the trait lists are served from     *)
(* (SpecParsed), successive calls on one selector (SpecSuccessive) and the *)
(* ProgressTracker with its checkpoint file (SpecTracker).                 *)
(***************************************************************************)
EXTENDS Integers, Sequences, FiniteSets, TLC

\* ---------------------------------------------------------------- bounds
\* largest count passed to generateCombinations
MaxCount == 2
\* a count whose rounds can end one attempt short of the budget
OvershootCount == 3
\* the random draw Math.random() * totalWeight is taken in steps of 1/DrawScale
DrawScale == 2
\* copies of one option list kept apart; further aliased pushes saturate
MaxCatalogLen == 3

\* most image files of one leaf directory
MaxFrames == 3
\* largest frames_per_animation
MaxRequired == 7

\* most candidates handed to the sampler on its own
MaxCandidates == 3
\* largest weight of such a candidate
MaxWeight == 2

\* most combinations handed to calculateFinalRarities
MaxRanked == 3
\* largest overall score of such a combination, in score units
MaxScore == 2

\* most characters of a trait folder name
MaxNameLen == 4

\* most keys an incompatible_traits entry lists, and most exclusive groups,
\* when the two filters are called on their own
MaxListed == 1
MaxGroups == 2

\* most entries of a trait type directory when the directory is parsed
MaxEntries == 2

\* largest count of a run that is followed through its first round only
MaxWideCount == 52

\* the instants of the clock the ProgressTracker reads, and most errors added
\* to one progress
MaxDate == 2
MaxErrors == 1

\* ----------------------------------------------------- program constants
\* Math.min(50, count)
MaxBatch == 50
\* `private requiredFrameCount: number = 12`
RequiredFrameCount == 12
\* VALIDATION_RULES.MIN_WEIGHT and MAX_WEIGHT
MIN_WEIGHT == 1
MAX_WEIGHT == 10000
\* count * 10
AttemptFactor == 10

\* -------------------------------------------------------------- helpers
Includes(s, x) == \E i \in 1..Len(s) : s[i] = x

Min(a, b) == IF a < b THEN a ELSE b

\* the elements of an array: array.some(P) is \E t \in Elems(array) : P(t)
Elems(s) == { s[i] : i \in 1..Len(s) }

\* array.find(P) is First(SelectSeq(array, P)): the first match as <<e>>, or
\* <<>> for undefined
First(s) == IF s = << >> THEN << >> ELSE << Head(s) >>

\* the elements of keys at the positions S, in the order of keys
Sub(keys, S) ==
  [i \in 1..Cardinality(S) |->
     keys[CHOOSE j \in S : Cardinality({ k \in S : k < j }) = i - 1]]

\* -------------------------------------------------------------- catalog
Trait(type, name, weight) == [type |-> type, name |-> name, weight |-> weight]

\* LayerProcessor.traitCache after validateStructure: category -> leaf traits
BaseCatalog ==
  [c \in {"bg", "body", "hat"} |->
     IF c = "bg"
     THEN << Trait("bg", <<"Red">>, 1), Trait("bg", <<"Blue">>, 1) >>
     ELSE IF c = "body"
     THEN << Trait("body", <<"Robot">>, 1), Trait("body", <<"Human", "1">>, 2) >>
     ELSE << Trait("hat", <<"Cap">>, 1) >>]

\* LayerProcessor.getAvailableTraits: the cached list, [] for an unknown type
getAvailableTraits(cat, traitType) ==
  IF traitType \in DOMAIN cat THEN cat[traitType] ELSE << >>

\* a node of the TraitHierarchy: weight, frames and, for an intermediate
\* directory, subTraits; an object keyed by names is the list of its
\* << key, value >> entries in insertion order
LeafNode(weight, frames) ==
  [weight |-> weight, frames |-> frames, hasSubTraits |-> FALSE, subTraits |-> << >>]

\* `private hierarchy: TraitHierarchy = {}`
EmptyHierarchy == [c \in {} |-> << >>]

\* the hierarchy of a layers directory whose categories hold the options of
\* lists as leaf folders
FlatHierarchy(lists) ==
  [c \in DOMAIN lists |->
     [k \in 1..Len(lists[c]) |->
        << lists[c][k].name, LeafNode(lists[c][k].weight, << "f0.png" >>) >>]]

\* new GeneratorError(VALIDATION_ERROR, 'Layer structure must be validated
\* ...'): no context, recoverable keeps its default
ValidationError ==
  [type |-> "VALIDATION_ERROR", context |-> << >>, recoverable |-> FALSE]

ServesWithoutCheck(cache, result, traitType) == TRUE

\* getAvailableTraits returns a list: the type is cached (the cache is read
\* first), or the last validation result is valid; otherwise it throws
Serves(cache, result, traitType) == traitType \in cache \/ result = "valid"

\* --------------------------------------------------------- configurations
NoRules == [x \in {} |-> << >>]

CfgOrdered(order, inc, forced, dep, excl, cond) ==
  [trait_processing_order |-> order,
   incompatible_traits |-> inc,
   forced_pairings |-> forced,
   dependent_traits |-> dep,
   exclusive_groups |-> excl,
   conditional_rarity |-> cond]

Cfg(inc, forced, dep, excl, cond) ==
  CfgOrdered(<<"bg", "body">>, inc, forced, dep, excl, cond)

\* Rule tables.  incompatible_traits is a map key -> list of keys; the other
\* tables are the Object.entries lists of their maps, in insertion order.  A
\* forced_pairings value is the one-element array the validator's schema
\* asks for, whose String() is its element.
Configs ==
  { Cfg(NoRules, << >>, << >>, << >>, << >>),
    Cfg(<<"bg", "Red">> :> << <<"body", "Robot">> >>, << >>, << >>, << >>, << >>),
    Cfg(<<"Robot">> :> << <<"Red">> >>, << >>, << >>, << >>, << >>),
    Cfg((<<"bg", "Red">> :> << >>) @@ (<<"Red">> :> << <<"body", "Robot">> >>),
        << >>, << >>, << >>, << >>),
    Cfg(<<"Red">> :> << <<"Robot">>, <<"Human">> >>, << >>, << >>, << >>, << >>),
    Cfg((<<"Red">> :> << <<"Robot">>, <<"Human">> >>)
          @@ (<<"Blue">> :> << <<"Robot">>, <<"Human">> >>),
        << >>, << >>, << >>, << >>),
    Cfg(NoRules, << << <<"bg", "Red">>, <<"body", "Robot">> >> >>, << >>, << >>, << >>),
    Cfg(NoRules, << << <<"Blue">>, <<"body", "Human">> >> >>, << >>, << >>, << >>),
    Cfg(NoRules, << << <<"body", "Robot">>, <<"bg", "Red">> >> >>, << >>, << >>, << >>),
    Cfg(NoRules, << << <<"Red">>, <<"Robot">> >> >>, << >>, << >>, << >>),
    Cfg(<<"bg", "Red">> :> << <<"body", "Robot">> >>,
        << << <<"bg", "Red">>, <<"body", "Robot">> >> >>, << >>, << >>, << >>),
    Cfg(NoRules, << >>, << << <<"bg", "Red">>, <<"body", "Robot">> >> >>, << >>, << >>),
    CfgOrdered(<<"bg", "body", "hat">>,
               NoRules, << >>, << << <<"bg", "Red">>, <<"hat", "Cap">> >> >>, << >>, << >>),
    Cfg(NoRules, << >>, << >>, << << "g", << <<"body">>, <<"Red">>, <<"Robot">> >> >> >>, << >>),
    Cfg(NoRules, << >>, << >>, << >>,
        << << <<"bg", "Red">>, << << <<"body", "Robot">>, 0 >> >> >> >>),
    Cfg(NoRules, << >>, << >>, << >>,
        << << <<"Blue">>, << << <<"body", "Human">>, 0 >> >> >> >>) }

VARIABLES
  config,            \* this.config: the rule tables of the run
  count,             \* the argument of generateCombinations
  catalog,           \* LayerProcessor.traitCache (shared, aliased option lists)
  pc,                \* position of generateCombinations: loop, await, process, done
  combinations,      \* the accepted list
  attempts,          \* attempt counter
  duplicates,        \* duplicate counter
  usedCombinations,  \* this.usedCombinations: signatures seen
  batch,             \* the round's promises, in launch order
  ri,                \* index of the settled result being processed
  fatalLogged,       \* the last settled result was logged as a 'Fatal error'
  error,             \* the error the running operation was rejected with, or <<>>
  validationResult,  \* LayerProcessor.validationResult: null, valid or invalid
  validatedOnce,     \* some validateStructure call has completed with isValid
  traitCache,        \* the keys of LayerProcessor.traitCache
  hierarchy,         \* LayerProcessor.hierarchy: the parsed layers directory
  rarityTracker,     \* TraitSelector.rarityTracker: the RarityCalculator's counters
  progress,          \* ProgressTracker.progress: << >> for null, else the object
  checkpointFile,    \* the checkpoint file: << >> when absent, else its JSON
  call               \* a method called on its own: name, arguments, outcome

\* what the rounds of generateCombinations leave alone
env == << error, validationResult, validatedOnce, rarityTracker, call, hierarchy, progress, checkpointFile >>

vars == << config, count, catalog, pc, combinations, attempts, duplicates,
           usedCombinations, batch, ri, fatalLogged, error, validationResult,
           validatedOnce, traitCache, rarityTracker, call, hierarchy, progress, checkpointFile >>


\* ------------------------------------------------------ key normalisation
\* getTraitKeys: the name up to the first '#'; null (<<>>) when it is empty
getTraitKeys(trait) ==
  LET cleanName == trait.name[1]
  IN IF cleanName = "" THEN << >>
     ELSE << [nameOnly |-> cleanName, withType |-> << trait.type, cleanName >>] >>

\* getTraitNameFromConfigKey: the part after the first colon, else the key
getTraitNameFromConfigKey(key) ==
  IF Len(key) > 1 THEN key[2] ELSE key[1]

\* keys.withType === key || keys.nameOnly === getTraitNameFromConfigKey(key),
\* for some selected trait (the trigger test of the three trigger tables)
TriggerIsSelected(selectedTraits, key) ==
  (\E t \in Elems(selectedTraits) :
    LET keys == getTraitKeys(t)
    IN keys # << >> /\ (keys[1].withType = key
                        \/ keys[1].nameOnly = getTraitNameFromConfigKey(key)))

\* keys.withType === key || keys.nameOnly === name, for some selected trait
IsAlreadySelected(selectedTraits, key, name) ==
  (\E t \in Elems(selectedTraits) :
    LET keys == getTraitKeys(t)
    IN keys # << >> /\ (keys[1].withType = key \/ keys[1].nameOnly = name))

\* ---------------------------------------------------------------- rules
\* incompatible_traits[withType] || incompatible_traits[nameOnly]; an
\* undefined result is the empty list (both make the includes test false)
IncompatRulesOf(keys) ==
  LET rules == config.incompatible_traits
  IN IF keys.withType \in DOMAIN rules THEN rules[keys.withType]
     ELSE IF << keys.nameOnly >> \in DOMAIN rules THEN rules[<< keys.nameOnly >>]
     ELSE << >>

applyIncompatibilityRules(availableTraits, selectedTraits) ==
  SelectSeq(availableTraits, LAMBDA trait :
    LET traitKeys == getTraitKeys(trait)
    IN traitKeys = << >>
       \/ ~ (\E selected \in Elems(selectedTraits) :
              LET selectedKeys == getTraitKeys(selected)
              IN selectedKeys # << >>
                 /\ LET selectedRules == IncompatRulesOf(selectedKeys[1])
                        availableRules == IncompatRulesOf(traitKeys[1])
                        check1 == Includes(selectedRules, traitKeys[1].withType)
                                  \/ Includes(selectedRules, << traitKeys[1].nameOnly >>)
                        check2 == Includes(availableRules, selectedKeys[1].withType)
                                  \/ Includes(availableRules, << selectedKeys[1].nameOnly >>)
                    IN check1 \/ check2))

\* The dependent option is looked up in the list getAvailableTraits returns
\* and pushed onto that same list: the inner `dependentTraits` shadows the
\* result list.  DependentCatalog is the catalog after entries k..n.
RECURSIVE DependentCatalog(_, _, _)
DependentCatalog(k, selectedTraits, cat) ==
  IF k > Len(config.dependent_traits) THEN cat
  ELSE
    LET triggerKey == config.dependent_traits[k][1]
        dependentKey == config.dependent_traits[k][2]
        dependentType == dependentKey[1]
        dependentName == IF Len(dependentKey) > 1 THEN dependentKey[2] ELSE dependentKey[1]
        list == getAvailableTraits(cat, dependentType)
        dependentTrait == First(SelectSeq(list, LAMBDA t : t.name[1] = dependentName))
        push == /\ TriggerIsSelected(selectedTraits, triggerKey)
                /\ ~ IsAlreadySelected(selectedTraits, dependentKey, dependentName)
                /\ dependentTrait # << >>
        cat1 == IF push /\ Len(list) < MaxCatalogLen
                THEN [cat EXCEPT ![dependentType] = Append(list, dependentTrait[1])]
                ELSE cat
    IN DependentCatalog(k + 1, selectedTraits, cat1)

\* the types applyDependentTraits asks getAvailableTraits for: the dependent
\* type of every entry whose trigger is selected and whose option is not
DependentTypes(selectedTraits) ==
  { config.dependent_traits[k][2][1] :
      k \in { j \in 1..Len(config.dependent_traits) :
               LET triggerKey == config.dependent_traits[j][1]
                   dependentKey == config.dependent_traits[j][2]
                   dependentName == IF Len(dependentKey) > 1 THEN dependentKey[2]
                                    ELSE dependentKey[1]
               IN /\ TriggerIsSelected(selectedTraits, triggerKey)
                  /\ ~ IsAlreadySelected(selectedTraits, dependentKey, dependentName) } }

\* the options the entries would resolve, had they been pushed to the result
RECURSIVE DependentResolved(_, _, _)
DependentResolved(k, selectedTraits, cat) ==
  IF k > Len(config.dependent_traits) THEN << >>
  ELSE
    LET triggerKey == config.dependent_traits[k][1]
        dependentKey == config.dependent_traits[k][2]
        dependentName == IF Len(dependentKey) > 1 THEN dependentKey[2] ELSE dependentKey[1]
        dependentTrait == First(SelectSeq(getAvailableTraits(cat, dependentKey[1]),
                                  LAMBDA t : t.name[1] = dependentName))
    IN (IF /\ TriggerIsSelected(selectedTraits, triggerKey)
           /\ ~ IsAlreadySelected(selectedTraits, dependentKey, dependentName)
        THEN dependentTrait ELSE << >>)
       \o DependentResolved(k + 1, selectedTraits, cat)

applyDependentTraitsPushingToResult(selectedTraits, cat) ==
  [traits |-> DependentResolved(1, selectedTraits, cat), catalog |-> cat]

\* applyDependentTraits: the list it returns (never pushed to) and the catalog
applyDependentTraits(selectedTraits, cat) ==
  [traits |-> << >>, catalog |-> DependentCatalog(1, selectedTraits, cat)]

applyExclusiveGroupRules(traitType, availableTraits, selectedTraits) ==
  LET entry == First(SelectSeq(config.exclusive_groups,
                               LAMBDA e : Includes(e[2], << traitType >>)))
  IN IF entry = << >> THEN availableTraits
     ELSE
       LET group == entry[1][2]
           InGroup(t) ==
             LET keys == getTraitKeys(t)
             IN keys # << >> /\ (Includes(group, << keys[1].nameOnly >>)
                                 \/ Includes(group, keys[1].withType))
       IN IF (\E t \in Elems(selectedTraits) : InGroup(t))
          THEN SelectSeq(availableTraits, LAMBDA t : ~ InGroup(t))
          ELSE availableTraits

\* one conditional_rarity adjustment: the first matching trait gets newWeight
Adjust(traits, targetKey, newWeight) ==
  LET targetType == targetKey[1]
      Matches(t) ==
        LET keys == getTraitKeys(t)
        IN keys # << >>
           /\ (keys[1].withType = targetKey
               \/ (Len(targetKey) > 1 /\ keys[1].nameOnly = targetKey[2]
                   /\ t.type = targetType))
  IN IF \E i \in 1..Len(traits) : Matches(traits[i])
     THEN LET i == CHOOSE i \in 1..Len(traits) :
                     Matches(traits[i]) /\ \A j \in 1..(i-1) : ~Matches(traits[j])
          IN [traits EXCEPT ![i].weight = newWeight]
     ELSE traits

RECURSIVE AdjustAll(_, _, _)
AdjustAll(traits, adjustments, k) ==
  IF k > Len(adjustments) THEN traits
  ELSE AdjustAll(Adjust(traits, adjustments[k][1], adjustments[k][2]), adjustments, k + 1)

RECURSIVE ConditionalFrom(_, _, _)
ConditionalFrom(k, traits, selectedTraits) ==
  IF k > Len(config.conditional_rarity) THEN traits
  ELSE
    LET conditionKey == config.conditional_rarity[k][1]
        adjustments == config.conditional_rarity[k][2]
    IN ConditionalFrom(k + 1,
         IF TriggerIsSelected(selectedTraits, conditionKey)
         THEN AdjustAll(traits, adjustments, 1) ELSE traits,
         selectedTraits)

applyConditionalRarity(availableTraits, selectedTraits) ==
  ConditionalFrom(1, availableTraits, selectedTraits)

\* the catalog if the weights were set on the option objects of the filtered
\* list themselves, which are the objects of the catalog's list
AdjustedInPlace(cat, traitType, adjustedTraits) ==
  IF traitType \notin DOMAIN cat THEN cat
  ELSE [cat EXCEPT ![traitType] =
          [k \in DOMAIN @ |->
             IF \E t \in Elems(adjustedTraits) : t.name = @[k].name
             THEN CHOOSE t \in Elems(adjustedTraits) : t.name = @[k].name
             ELSE @[k]]]

\* the catalog after applyConditionalRarity: adjustedTraits is a deep clone
\* (JSON.parse(JSON.stringify(availableTraits))), so `targetTrait.weight =
\* newWeight` writes no object of the catalog
AfterConditionalRarity(cat, traitType, adjustedTraits) == cat

\* applyForcedPairings: the first entry whose trigger is selected, whose
\* forced type is the current layer, whose option is not yet selected and
\* resolves in the catalog; <<>> is null
RECURSIVE ForcedFrom(_, _, _, _)
ForcedFrom(k, traitType, selectedTraits, cat) ==
  IF k > Len(config.forced_pairings) THEN << >>
  ELSE
    LET triggerKey == config.forced_pairings[k][1]
        forcedKey == config.forced_pairings[k][2]
        forcedType == forcedKey[1]
        forcedName == IF Len(forcedKey) > 1 THEN forcedKey[2] ELSE forcedKey[1]
        forcedTrait == First(SelectSeq(getAvailableTraits(cat, traitType),
                               LAMBDA t : t.name[1] = forcedName))
    IN IF /\ TriggerIsSelected(selectedTraits, triggerKey)
          /\ forcedType = traitType
          /\ ~ IsAlreadySelected(selectedTraits, forcedKey, forcedName)
          /\ forcedTrait # << >>
       THEN forcedTrait
       ELSE ForcedFrom(k + 1, traitType, selectedTraits, cat)

applyForcedPairings(traitType, selectedTraits, cat) ==
  ForcedFrom(1, traitType, selectedTraits, cat)

\* -------------------------------------------------------------- sampler
RECURSIVE SumWeights(_, _)
SumWeights(traits, k) ==
  IF k > Len(traits) THEN 0 ELSE traits[k].weight + SumWeights(traits, k + 1)

\* the values of Math.random() * totalWeight, in units of 1/DrawScale
Draws(traits) ==
  LET totalWeight == SumWeights(traits, 1)
  IN IF Len(traits) = 1 \/ totalWeight = 0 THEN {0}
     ELSE 0 .. (DrawScale * totalWeight - 1)

\* the scan of weightedRandomSelect from index k with remainder random
RECURSIVE Scan(_, _, _)
Scan(traits, k, random) ==
  IF k > Len(traits) THEN traits[Len(traits)]
  ELSE LET r == random - DrawScale * traits[k].weight
       IN IF r <= 0 THEN traits[k] ELSE Scan(traits, k + 1, r)

weightedRandomSelect(traits, draw) ==
  IF Len(traits) = 1 THEN traits[1] ELSE Scan(traits, 1, draw)


\* ---------------------------------------------------------- one attempt
\* new GeneratorError(PROCESSING_ERROR, message, { recoverable: true }): the
\* third constructor parameter is the context, the fourth (recoverable)
\* keeps its default
AllFilteredError ==
  [type |-> "PROCESSING_ERROR", context |-> [recoverable |-> TRUE], recoverable |-> FALSE]

\* a number of the rarity score: (num / den) ^ (1 / root); den = 0 is what
\* a division by zero leaves
Number(num, den, root) == [num |-> num, den |-> den, root |-> root]

Zero == Number(0, 1, 1)

\* this.traitFrequencies.get(`${trait.type}:${trait.name}`) || 0
frequencyOf(tracker, trait) ==
  LET key == << trait.type, trait.name >>
  IN IF key \in DOMAIN tracker.traitFrequencies
     THEN tracker.traitFrequencies[key] ELSE 0

\* the division without the test for a tracker that holds nothing
traitRarityUnguarded(tracker, trait) ==
  Number(frequencyOf(tracker, trait), tracker.totalCombinations, 1)

\* calculateTraitRarity: 0 while nothing has been recorded, else the share
\* of the recorded combinations that hold the option
calculateTraitRarity(tracker, trait) ==
  IF tracker.totalCombinations = 0 THEN Zero
  ELSE Number(frequencyOf(tracker, trait), tracker.totalCombinations, 1)

\* traitRarities.reduce((acc, rarity) => acc * rarity, 1) from element k on,
\* acc being the product so far
RECURSIVE ProductFrom(_, _, _, _)
ProductFrom(traitRarities, k, num, den) ==
  IF k > Len(traitRarities) THEN Number(num, den, 1)
  ELSE ProductFrom(traitRarities, k + 1, num * traitRarities[k].num,
                   den * traitRarities[k].den)

\* calculateOverallRarity: 0 for no traits, else the geometric mean
\* Math.pow(product, 1 / length), which is 0 for the product 0
calculateOverallRarity(traitRarities) ==
  IF traitRarities = << >> THEN Zero
  ELSE LET product == ProductFrom(traitRarities, 1, 1, 1)
       IN IF product.num = 0 /\ product.den # 0 THEN Zero
          ELSE Number(product.num, product.den, Len(traitRarities))

\* calculateRarity: the score of the traits against what the tracker holds,
\* rank and percentile left at 0
calculateRarity(tracker, traits) ==
  LET traitRarities == [k \in 1..Len(traits) |-> calculateTraitRarity(tracker, traits[k])]
  IN [overall |-> calculateOverallRarity(traitRarities),
      traits |-> traitRarities,
      rank |-> 0,
      percentile |-> 0]

\* createTraitCombination: the id it is given, the traits and their score
\* against the selector's tracker as it is at that moment
createTraitCombination(tracker, id, traits) ==
  [id |-> id, traits |-> traits, rarity |-> calculateRarity(tracker, traits)]

\* a promise of the round: the id given at launch, the traits selected so
\* far, the index of the next category, how it settled, and the error it
\* was rejected with (<<>> while there is none)
Pending(id) ==
  [id |-> id, selectedTraits |-> << >>, layer |-> 1, status |-> "pending",
   reason |-> << >>]

\* after the loop body of one category: next category, or return
Advance(a, selectedTraits) ==
  [a EXCEPT !.selectedTraits = selectedTraits,
            !.layer = a.layer + 1,
            !.status = IF a.layer + 1 > Len(config.trait_processing_order)
                       THEN "fulfilled" ELSE "pending"]

\* the candidates of a category after steps 4-6
Candidates(traitType, selectedTraits, cat) ==
  applyConditionalRarity(
    applyExclusiveGroupRules(traitType,
      applyIncompatibilityRules(getAvailableTraits(cat, traitType), selectedTraits),
      selectedTraits),
    selectedTraits)

\* generateSingleCombination: one iteration of the loop over layerOrder in
\* attempt i of the round.  Validation is not rerun while the rounds run, so
\* once step 1 was served the lookups of the later steps are served too.
CategoryStep(i) ==
  /\ pc = "await"
  /\ i \in 1..Len(batch)
  /\ batch[i].status = "pending"
  /\ LET a == batch[i]
         traitType == config.trait_processing_order[a.layer]
         forcedTrait == applyForcedPairings(traitType, a.selectedTraits, catalog)
         dep == applyDependentTraits(a.selectedTraits, catalog)
         selected1 == a.selectedTraits \o dep.traits
         traits == Candidates(traitType, selected1, dep.catalog)
     IN IF ~ Serves(traitCache, validationResult, traitType)
        THEN /\ batch' = [batch EXCEPT ![i].status = "rejected",
                                        ![i].reason = << ValidationError >>]
             /\ UNCHANGED << catalog, traitCache >>
        ELSE IF forcedTrait # << >>
        THEN /\ batch' = [batch EXCEPT ![i] = Advance(a, a.selectedTraits \o forcedTrait)]
             /\ traitCache' = traitCache \cup {traitType}
             /\ UNCHANGED catalog
        ELSE /\ catalog' =
                  IF dep.traits # << >> /\ (\E t \in Elems(dep.traits) : t.type = traitType)
                  THEN dep.catalog
                  ELSE AfterConditionalRarity(dep.catalog, traitType, traits)
             /\ traitCache' = traitCache \cup {traitType}
                                \cup DependentTypes(a.selectedTraits)
             /\ IF dep.traits # << >> /\ (\E t \in Elems(dep.traits) : t.type = traitType)
                THEN batch' = [batch EXCEPT ![i] = Advance(a, selected1)]
                ELSE IF traits = << >>
                THEN batch' = [batch EXCEPT ![i].selectedTraits = selected1,
                                            ![i].status = "rejected",
                                            ![i].reason = << AllFilteredError >>]
                ELSE \E draw \in Draws(traits) :
                       batch' = [batch EXCEPT ![i] =
                         Advance(a, Append(selected1, weightedRandomSelect(traits, draw)))]
  /\ UNCHANGED << env, config, count, pc, combinations, attempts, duplicates,
                  usedCombinations, ri, fatalLogged >>

\* ------------------------------------------------------- the orchestrator
batchSizeUncapped == count

\* Math.min(50, count)
batchSize == Min(MaxBatch, count)

maxAttempts == count * AttemptFactor

\* getCombinationKey: the 'type:name' strings, sorted and joined.  Two lists
\* give the same string exactly when they hold the same pairs equally often,
\* so the key is kept as the bag of pairs.
getCombinationKey(combination) ==
  LET pairs == { << combination.traits[k].type, combination.traits[k].name[1] >> :
                   k \in 1..Len(combination.traits) }
  IN [p \in pairs |->
        Cardinality({ k \in 1..Len(combination.traits) :
          << combination.traits[k].type, combination.traits[k].name[1] >> = p })]

currentBatchSizeIgnoringRemaining(remaining) == batchSize

\* Math.min(batchSize, remaining)
currentBatchSize(remaining) == Min(batchSize, remaining)

\* the while test fails: log the shortfall, return the accepted list
Return ==
  /\ pc = "loop"
  /\ ~ (Len(combinations) < count /\ attempts < maxAttempts)
  /\ pc' = "done"
  /\ UNCHANGED << env, traitCache, config, count, catalog, combinations, attempts, duplicates,
                  usedCombinations, batch, ri, fatalLogged >>

\* one round is launched: currentBatchSize promises, ids from the accepted
\* length at launch
Launch ==
  /\ pc = "loop"
  /\ Len(combinations) < count /\ attempts < maxAttempts
  /\ LET remaining == count - Len(combinations)
     IN batch' = [i \in 1..currentBatchSize(remaining) |->
                    Pending(Len(combinations) + (i - 1) + 1)]
  /\ pc' = "await"
  /\ UNCHANGED << env, traitCache, config, count, catalog, combinations, attempts, duplicates,
                  usedCombinations, ri, fatalLogged >>

SomeSettled(promises) ==
  promises = << >> \/ \E i \in 1..Len(promises) : promises[i].status # "pending"

\* when `await Promise.allSettled(batchPromises)` resumes: every promise of
\* the round is fulfilled or rejected
EverySettled(promises) == \A i \in 1..Len(promises) : promises[i].status # "pending"

\* Promise.allSettled resolves once every promise of the round has settled
AllSettled ==
  /\ pc = "await"
  /\ EverySettled(batch)
  /\ pc' = "process"
  /\ ri' = 1
  /\ UNCHANGED << env, traitCache, config, count, catalog, combinations, attempts, duplicates,
                  usedCombinations, batch, fatalLogged >>

AcceptsAnyKey(used, key) == TRUE

\* !this.usedCombinations.has(key)
Accepts(used, key) == key \notin used

RethrowsFatal(reason) == IF reason.recoverable THEN "process" ELSE "thrown"

\* where the for loop stands after a rejected result: `continue` for a
\* recoverable error, logger.error and the next iteration for any other
AfterRejected(reason) == "process"

CountOnlyFulfilled(n, status) == IF status = "fulfilled" THEN n + 1 ELSE n

\* the attempt counter after one settled result: attempts++ comes first in
\* the loop body, whatever the result
CountAttempt(n, status) == n + 1

\* one iteration of `for (const result of batchResults)`
ProcessResult ==
  /\ pc = "process"
  /\ ri <= Len(batch)
  /\ attempts' = CountAttempt(attempts, batch[ri].status)
  /\ LET result == batch[ri]
         combination == createTraitCombination(rarityTracker, result.id, result.selectedTraits)
         \* the key reads nothing of the combination but its traits
         key == getCombinationKey([traits |-> result.selectedTraits])
     IN IF result.status = "fulfilled"
        THEN IF Accepts(usedCombinations, key)
             THEN /\ usedCombinations' = usedCombinations \cup {key}
                  /\ combinations' = Append(combinations, combination)
                  /\ fatalLogged' = FALSE
                  /\ UNCHANGED duplicates
             ELSE /\ duplicates' = duplicates + 1
                  /\ fatalLogged' = FALSE
                  /\ UNCHANGED << usedCombinations, combinations >>
        ELSE /\ fatalLogged' = ~ result.reason[1].recoverable
             /\ UNCHANGED << usedCombinations, combinations, duplicates >>
  /\ pc' = IF batch[ri].status = "rejected" THEN AfterRejected(batch[ri].reason[1])
           ELSE "process"
  /\ ri' = ri + 1
  /\ UNCHANGED << env, traitCache, config, count, catalog, batch >>

\* the for loop is over: back to the while test
RoundDone ==
  /\ pc = "process"
  /\ ri > Len(batch)
  /\ pc' = "loop"
  /\ UNCHANGED << env, traitCache, config, count, catalog, combinations, attempts, duplicates,
                  usedCombinations, batch, ri, fatalLogged >>

\* no method is being called on its own
NoCall == [fn |-> "none"]

\* new RarityCalculator(): empty maps, totalCombinations = 0
NewRarityCalculator ==
  [traitFrequencies |-> << >>, combinationFrequencies |-> << >>, totalCombinations |-> 0]

\* a fresh TraitSelector over a fresh LayerProcessor on the layers directory
\* layers, before any call
InitSelectorOn(layers, configs, counts) ==
  /\ config \in configs
  /\ count \in counts
  /\ catalog = layers
  /\ combinations = << >>
  /\ attempts = 0
  /\ duplicates = 0
  /\ usedCombinations = {}
  /\ batch = << >>
  /\ ri = 1
  /\ fatalLogged = FALSE
  /\ error = << >>
  /\ traitCache = {}
  /\ rarityTracker = NewRarityCalculator

InitSelector(configs, counts) == InitSelectorOn(BaseCatalog, configs, counts)

\* generateCombinations(count) is entered after a validation that passed
InitWith(configs, counts) ==
  /\ InitSelector(configs, counts)
  /\ hierarchy = FlatHierarchy(BaseCatalog)
  /\ progress = << >>
  /\ checkpointFile = << >>
  /\ pc = "loop"
  /\ validationResult = "valid"
  /\ validatedOnce = TRUE
  /\ call = NoCall

Init == InitWith(Configs, 0..MaxCount)

Next ==
  \/ Launch
  \/ \E i \in 1..MaxBatch : CategoryStep(i)
  \/ AllSettled
  \/ ProcessResult
  \/ RoundDone
  \/ Return

Spec == Init /\ [][Next]_vars

\* Every step of the call is a step of the one running task or of a
\* scheduled promise job: the event loop runs each to completion.
FairSpec == Spec /\ WF_vars(Next)


\* ------------------------------------------------- the Generator's paths
\* how one validateStructure call ends: it returns a result without errors,
\* a result with errors, or throws because the layers directory is missing
\* (validationResult is then not assigned)
ValidationOutcomes == {"valid", "invalid", "throws"}

\* this.validationResult after a validateStructure call that ended so
validateStructure(result, outcome) == IF outcome = "throws" THEN result ELSE outcome

\* this.hierarchy after validateStructure on the layers directory: assigned
\* as soon as parseTraitHierarchy returns, unless the directory is missing
parsedHierarchy(parsed, outcome) ==
  IF outcome = "throws" THEN parsed ELSE FlatHierarchy(BaseCatalog)

\* Generator.generate: validate() throws unless the layer result is valid,
\* then generateMetadata calls generateCombinations
Generate ==
  /\ pc = "start"
  /\ \E outcome \in ValidationOutcomes :
       /\ validationResult' = validateStructure(validationResult, outcome)
       /\ validatedOnce' = (validatedOnce \/ outcome = "valid")
       /\ hierarchy' = parsedHierarchy(hierarchy, outcome)
       /\ UNCHANGED << progress, checkpointFile >>
       /\ IF outcome = "valid"
          THEN pc' = "loop" /\ UNCHANGED error
          ELSE pc' = "thrown" /\ error' = << ValidationError >>
  /\ UNCHANGED << config, count, catalog, combinations, attempts, duplicates,
                  usedCombinations, batch, ri, fatalLogged, traitCache,
                  rarityTracker, call >>

\* Generator.generateMetadata, called on its own (the generate-metadata
\* command): generateCombinations is called without any validation
GenerateMetadata ==
  /\ pc = "start"
  /\ pc' = "loop"
  /\ UNCHANGED << config, count, catalog, combinations, attempts, duplicates,
                  usedCombinations, batch, ri, fatalLogged, traitCache, env >>

\* Generator.previewTraits: validateStructure's result is not read; only its
\* exception ends the call
PreviewTraits ==
  /\ pc = "start"
  /\ \E outcome \in ValidationOutcomes :
       /\ validationResult' = validateStructure(validationResult, outcome)
       /\ validatedOnce' = (validatedOnce \/ outcome = "valid")
       /\ hierarchy' = parsedHierarchy(hierarchy, outcome)
       /\ UNCHANGED << progress, checkpointFile >>
       /\ IF outcome = "throws"
          THEN pc' = "thrown" /\ error' = << ValidationError >>
          ELSE pc' = "loop" /\ UNCHANGED error
  /\ UNCHANGED << config, count, catalog, combinations, attempts, duplicates,
                  usedCombinations, batch, ri, fatalLogged, traitCache,
                  rarityTracker, call >>

\* a fresh Generator: nothing validated, no operation entered
InitGenerator ==
  /\ InitSelector(Configs, 0..MaxCount)
  /\ hierarchy = EmptyHierarchy
  /\ progress = << >>
  /\ checkpointFile = << >>
  /\ pc = "start"
  /\ validationResult = "null"
  /\ validatedOnce = FALSE
  /\ call = NoCall

NextGenerator ==
  \/ Generate
  \/ GenerateMetadata
  \/ PreviewTraits
  \/ Next

SpecGenerator == InitGenerator /\ [][NextGenerator]_vars

\* ------------------------------------------- the LayerProcessor on its own
\* the type names getAvailableTraits is asked for: the categories of the
\* layers directory and a name that is none of them
TraitTypes == DOMAIN BaseCatalog \cup {"Robot"}

\* a call of validateStructure on the LayerProcessor
ValidateStructureCall ==
  /\ pc = "layers"
  /\ \E outcome \in ValidationOutcomes :
       /\ validationResult' = validateStructure(validationResult, outcome)
       /\ validatedOnce' = (validatedOnce \/ outcome = "valid")
       /\ hierarchy' = parsedHierarchy(hierarchy, outcome)
       /\ UNCHANGED << progress, checkpointFile >>
       /\ call' = [fn |-> "validateStructure", arg |-> << >>,
                   threw |-> (outcome = "throws"),
                   value |-> IF outcome = "throws" THEN << ValidationError >>
                             ELSE << outcome >>]
  /\ UNCHANGED << config, count, catalog, pc, combinations, attempts, duplicates,
                  usedCombinations, batch, ri, fatalLogged, error, traitCache,
                  rarityTracker >>

\* a call of getAvailableTraits(traitType) on the LayerProcessor: the cached
\* or freshly collected (and then cached) list, or the exception
GetAvailableTraitsCall(traitType) ==
  /\ pc = "layers"
  /\ IF Serves(traitCache, validationResult, traitType)
     THEN /\ call' = [fn |-> "getAvailableTraits", arg |-> << traitType >>,
                      threw |-> FALSE,
                      value |-> << getAvailableTraits(catalog, traitType) >>]
          /\ traitCache' = traitCache \cup {traitType}
     ELSE /\ call' = [fn |-> "getAvailableTraits", arg |-> << traitType >>,
                      threw |-> TRUE, value |-> << ValidationError >>]
          /\ UNCHANGED traitCache
  /\ UNCHANGED << config, count, catalog, pc, combinations, attempts, duplicates,
                  usedCombinations, batch, ri, fatalLogged, error,
                  validationResult, validatedOnce, rarityTracker,
                  hierarchy, progress, checkpointFile >>

\* a fresh LayerProcessor: validationResult = null, empty traitCache
InitLayers ==
  /\ InitSelector({Cfg(NoRules, << >>, << >>, << >>, << >>)}, {0})
  /\ hierarchy = EmptyHierarchy
  /\ progress = << >>
  /\ checkpointFile = << >>
  /\ pc = "layers"
  /\ validationResult = "null"
  /\ validatedOnce = FALSE
  /\ call = NoCall

NextLayers ==
  \/ ValidateStructureCall
  \/ \E traitType \in TraitTypes : GetAvailableTraitsCall(traitType)

SpecLayers == InitLayers /\ [][NextLayers]_vars

\* ----------------------------------------------------- frame normalisation
\* the image file names a leaf directory can hold
FrameNames == { "f0.png", "f1.png", "f2.png", "f3.png" }

\* getImageFiles: up to MaxFrames directory entries, each name once
FrameLists ==
  UNION { { f \in [1..k -> FrameNames] : \A i, j \in 1..k : f[i] = f[j] => i = j } :
          k \in 0..MaxFrames }

\* the for loop of loopFramesToRequiredCount from index i: a frame is pushed
\* when it is truthy
RECURSIVE LoopFrom(_, _, _)
LoopFrom(i, originalFrames, requiredFrameCount) ==
  IF i >= requiredFrameCount THEN << >>
  ELSE LET frameIndex == i % Len(originalFrames)
           frame == originalFrames[frameIndex + 1]
       IN (IF frame # "" THEN << frame >> ELSE << >>)
            \o LoopFrom(i + 1, originalFrames, requiredFrameCount)

framesAsFound(originalFrames, requiredFrameCount) == originalFrames

loopFramesToRequiredCount(originalFrames, requiredFrameCount) ==
  IF Len(originalFrames) = 0 THEN << >>
  ELSE IF Len(originalFrames) >= requiredFrameCount
  THEN SubSeq(originalFrames, 1, requiredFrameCount)
  ELSE LoopFrom(0, originalFrames, requiredFrameCount)

\* a method about to be called on its own with the arguments arg
Called(fn, arg) == [fn |-> fn, arg |-> arg, threw |-> FALSE, value |-> << >>]

\* parseTraitHierarchy normalises the frames of one leaf directory
LoopFrames ==
  /\ pc = "call"
  /\ call.fn = "loopFramesToRequiredCount"
  /\ call.value = << >>
  /\ call' = [call EXCEPT !.value = << loopFramesToRequiredCount(call.arg[1], call.arg[2]) >>]
  /\ UNCHANGED << config, count, catalog, pc, combinations, attempts, duplicates,
                  usedCombinations, batch, ri, fatalLogged, error, traitCache,
                  validationResult, validatedOnce, rarityTracker,
                  hierarchy, progress, checkpointFile >>

\* the objects at rest while one method is called with one of the inputs
InitCall(inputs) ==
  /\ InitSelector({Cfg(NoRules, << >>, << >>, << >>, << >>)}, {0})
  /\ hierarchy = EmptyHierarchy
  /\ progress = << >>
  /\ checkpointFile = << >>
  /\ pc = "call"
  /\ validationResult = "null"
  /\ validatedOnce = FALSE
  /\ call \in inputs

InitFrames ==
  InitCall({ Called("loopFramesToRequiredCount", << frames, r >>) :
               frames \in FrameLists, r \in 1..MaxRequired })

SpecFrames == InitFrames /\ [][LoopFrames]_vars

\* ------------------------------------------------- the sampler on its own
\* candidate lists: the k-th candidate is the k-th of the options of one
\* category, with any weight (0 included: conditional_rarity can set it)
CandidateNames == << "Robot", "Human", "Alien", "Ghost", "Zombie" >>

CandidateLists ==
  UNION { { [k \in 1..n |-> Trait("body", << CandidateNames[k] >>, w[k])] :
              w \in [1..n -> 0..MaxWeight] } :
          n \in 0..MaxCandidates }

AlwaysDraws(traits) == 1

\* the Math.random() calls of one weightedRandomSelect call that returns
RandomCalls(traits) == IF Len(traits) = 1 THEN 0 ELSE 1

\* new GeneratorError(PROCESSING_ERROR, 'No traits available for selection')
NoTraitsError ==
  [type |-> "PROCESSING_ERROR", context |-> << >>, recoverable |-> FALSE]

\* one call of weightedRandomSelect(traits)
Select ==
  /\ pc = "call"
  /\ call.fn = "weightedRandomSelect"
  /\ call.value = << >>
  /\ LET traits == call.arg[1]
     IN IF Len(traits) = 0
        THEN call' = [call EXCEPT !.threw = TRUE, !.value = << NoTraitsError >>]
        ELSE \E draw \in Draws(traits) :
               call' = [call EXCEPT !.value =
                          << [trait |-> weightedRandomSelect(traits, draw),
                              randomCalls |-> RandomCalls(traits)] >>]
  /\ UNCHANGED << config, count, catalog, pc, combinations, attempts, duplicates,
                  usedCombinations, batch, ri, fatalLogged, error, traitCache,
                  validationResult, validatedOnce, rarityTracker,
                  hierarchy, progress, checkpointFile >>

InitSampler ==
  InitCall({ Called("weightedRandomSelect", << traits >>) : traits \in CandidateLists })

SpecSampler == InitSampler /\ [][Select]_vars

\* ------------------------------------------------------ RarityCalculator
\* map.set(key, (map.get(key) || 0) + 1)
Increment(map, key) ==
  IF key \in DOMAIN map THEN [map EXCEPT ![key] = @ + 1] ELSE map @@ (key :> 1)

\* the per-trait loop of recordCombination from trait k: the key is
\* `${trait.type}:${trait.name}`, the name with its '#' suffix
RECURSIVE RecordTraits(_, _, _)
RecordTraits(frequencies, traits, k) ==
  IF k > Len(traits) THEN frequencies
  ELSE RecordTraits(Increment(frequencies, << traits[k].type, traits[k].name >>),
                    traits, k + 1)

\* the 'type:name' strings sorted and joined by '|', kept as the bag of keys
combinationKey(traits) ==
  LET keys == { << traits[k].type, traits[k].name >> : k \in 1..Len(traits) }
  IN [p \in keys |->
        Cardinality({ k \in 1..Len(traits) : << traits[k].type, traits[k].name >> = p })]

\* the tracker after recordCombination(combination)
recordCombination(tracker, combination) ==
  [totalCombinations |-> tracker.totalCombinations + 1,
   traitFrequencies |-> RecordTraits(tracker.traitFrequencies, combination.traits, 1),
   combinationFrequencies |->
     Increment(tracker.combinationFrequencies, combinationKey(combination.traits))]

\* the combinations calculateFinalRarities is given: distinct objects whose
\* ids are 1..M in any order, each with its overall score and the rank and
\* percentile placeholders of calculateRarity
Scored(id, overall) ==
  [id |-> id, overall |-> overall, rank |-> 0, percentile |-> [num |-> 0, den |-> 1]]

RankedInputs ==
  UNION { { [k \in 1..m |-> Scored(ids[k], overall[k])] :
              ids \in { f \in [1..m -> 1..m] : \A i, j \in 1..m : f[i] = f[j] => i = j },
              overall \in [1..m -> 0..MaxScore] } :
          m \in 0..MaxRanked }

\* one insertion of the stable sort: c goes behind every element the
\* comparator b.rarity.overall - a.rarity.overall does not put behind it
RECURSIVE InsertSorted(_, _)
InsertSorted(sorted, c) ==
  IF sorted = << >> THEN << c >>
  ELSE IF c.overall - Head(sorted).overall > 0
  THEN << c >> \o sorted
  ELSE << Head(sorted) >> \o InsertSorted(Tail(sorted), c)

RECURSIVE SortFrom(_, _)
SortFrom(list, k) ==
  IF k = 0 THEN << >>
  ELSE InsertSorted(SortFrom(list, k - 1), list[k])

inInputOrder(list) == list

\* [...combinations].sort((a, b) => b.rarity.overall - a.rarity.overall);
\* Array.prototype.sort is stable
sortedCombinations(list) == SortFrom(list, Len(list))

\* calculateFinalRarities: the input list after the forEach has written rank
\* and percentile into its objects; the percentile ((index + 1) / length) *
\* 100 is kept as the fraction num / den
calculateFinalRarities(list) ==
  LET sorted == sortedCombinations(list)
      index(c) == CHOOSE i \in 1..Len(sorted) : sorted[i].id = c.id
  IN [k \in 1..Len(list) |->
        [list[k] EXCEPT
           !.rank = index(list[k]),
           !.percentile = [num |-> index(list[k]) * 100,
                           den |-> Len(list)]]]

\* one call of calculateFinalRarities(combinations)
FinalRarities ==
  /\ pc = "call"
  /\ call.fn = "calculateFinalRarities"
  /\ call.value = << >>
  /\ call' = [call EXCEPT !.value = << calculateFinalRarities(call.arg[1]) >>]
  /\ UNCHANGED << config, count, catalog, pc, combinations, attempts, duplicates,
                  usedCombinations, batch, ri, fatalLogged, error, traitCache,
                  validationResult, validatedOnce, rarityTracker,
                  hierarchy, progress, checkpointFile >>

InitRarity ==
  InitCall({ Called("calculateFinalRarities", << list >>) : list \in RankedInputs })

SpecRarity == InitRarity /\ [][FinalRarities]_vars

\* ------------------------------------------------------ trait folder names
\* a folder name is the sequence of its characters: a letter, the two
\* digits and the three marks the parsers look for
NameChars == { "a", "0", "2", "#", "(", ")" }

Digits == { "0", "2" }

FolderNames == UNION { [1..n -> NameChars] : n \in 1..MaxNameLen }

\* parseInt of a string of digits
RECURSIVE parseInt(_)
parseInt(digits) ==
  IF digits = << >> THEN 0
  ELSE 10 * parseInt(SubSeq(digits, 1, Len(digits) - 1))
         + (IF digits[Len(digits)] = "2" THEN 2 ELSE 0)

\* traitName.match(/^(.+)\((\d+)\)$/): <<>> for null, else << <<name, digits>> >>
weightMatch(traitName) ==
  LET n == Len(traitName)
      opens == { i \in 2..(n - 2) :
                   /\ traitName[i] = "("
                   /\ \A j \in (i + 1)..(n - 1) : traitName[j] \in Digits }
  IN IF n >= 4 /\ traitName[n] = ")" /\ opens # {}
     THEN LET i == CHOOSE i \in opens : TRUE
          IN << << SubSeq(traitName, 1, i - 1), SubSeq(traitName, i + 1, n - 1) >> >>
     ELSE << >>

\* the form 'Name#<weight>' of the README's folder rules: <<>> when the
\* folder name does not have it, else << <<Name, weight digits>> >>
hashMatch(traitName) ==
  LET n == Len(traitName)
      hashes == { i \in 2..(n - 1) :
                    /\ traitName[i] = "#"
                    /\ \A j \in (i + 1)..n : traitName[j] \in Digits }
  IN IF hashes # {}
     THEN LET i == CHOOSE i \in hashes : TRUE
          IN << << SubSeq(traitName, 1, i - 1), SubSeq(traitName, i + 1, n) >> >>
     ELSE << >>

\* the name and weight parseTraitType stores for a leaf folder, which
\* collectLeafTraits copies into the option
folderOption(traitName) ==
  LET m == weightMatch(traitName)
  IN [name |-> IF m # << >> THEN m[1][1] ELSE traitName,
      weight |-> IF m # << >> THEN parseInt(m[1][2]) ELSE 1]

\* name.split('#')[0] of getTraitKeys: the characters before the first '#'
RECURSIVE beforeHash(_)
beforeHash(name) ==
  IF name = << >> \/ Head(name) = "#" THEN << >>
  ELSE << Head(name) >> \o beforeHash(Tail(name))

\* parseTraitType reads one leaf folder of a trait type directory
ParseFolder ==
  /\ pc = "call"
  /\ call.fn = "parseTraitType"
  /\ call.value = << >>
  /\ call' = [call EXCEPT !.value = << folderOption(call.arg[1]) >>]
  /\ UNCHANGED << config, count, catalog, pc, combinations, attempts, duplicates,
                  usedCombinations, batch, ri, fatalLogged, error, traitCache,
                  validationResult, validatedOnce, rarityTracker,
                  hierarchy, progress, checkpointFile >>

InitFolder ==
  InitCall({ Called("parseTraitType", << traitName >>) : traitName \in FolderNames })

SpecFolder == InitFolder /\ [][ParseFolder]_vars

\* ------------------------------------------------------- ConfigValidator
\* A configuration document is a function from the paths it holds to their
\* values; a value keeps its JSON type t, its number n or its string s.  An
\* array keeps its length in n and what its items are in s, an object
\* pattern what its values are in s.
Num(n) == [t |-> "number", n |-> n, s |-> ""]

Str(s) == [t |-> "string", n |-> 0, s |-> s]

Bool == [t |-> "boolean", n |-> 1, s |-> ""]

Null == [t |-> "null", n |-> 0, s |-> ""]

Obj == [t |-> "object", n |-> 0, s |-> ""]

Map(values) == [t |-> "object", n |-> 0, s |-> values]

Arr(length, items) == [t |-> "array", n |-> length, s |-> items]

\* one key of the Joi schema: its path, whether it is .required(), the kind
\* of its rule, the bounds of .min() and .max(), the strings of .valid()
Key(path, required, kind, lo, hi, opts) ==
  [path |-> path, required |-> required, kind |-> kind, lo |-> lo, hi |-> hi,
   opts |-> opts]

\* this.schema
Schema ==
  { Key(<<"generation">>, TRUE, "object", 0, 0, {}),
    Key(<<"generation", "total_nfts">>, TRUE, "integer", 1, 1000000, {}),
    Key(<<"generation", "frames_per_animation">>, TRUE, "integer", 1, 1000, {}),
    Key(<<"generation", "dimensions">>, TRUE, "object", 0, 0, {}),
    Key(<<"generation", "dimensions", "width">>, TRUE, "integer", 32, 4096, {}),
    Key(<<"generation", "dimensions", "height">>, TRUE, "integer", 32, 4096, {}),
    Key(<<"generation", "upscaling">>, TRUE, "valid", 0, 0, {"nearest_neighbour", "smooth"}),
    Key(<<"generation", "frame_rate">>, TRUE, "integer", 1, 120, {}),
    Key(<<"generation", "output_format">>, TRUE, "valid", 0, 0, {"gif", "mp4"}),
    Key(<<"generation", "batch_size">>, TRUE, "integer", 1, 10000, {}),
    Key(<<"generation", "max_concurrent">>, TRUE, "integer", 1, 32, {}),
    Key(<<"generation", "resume_from">>, FALSE, "integer or null", 0, 0, {}),
    Key(<<"performance">>, TRUE, "object", 0, 0, {}),
    Key(<<"performance", "worker_threads">>, TRUE, "boolean", 0, 0, {}),
    Key(<<"performance", "gpu_acceleration">>, TRUE, "valid", 0, 0, {"auto", "gpu", "cpu"}),
    Key(<<"performance", "memory_limit">>, TRUE, "memory", 0, 0, {}),
    Key(<<"performance", "cpu_cores">>, TRUE, "valid or integer", 1, 32, {"auto"}),
    Key(<<"animation">>, TRUE, "object", 0, 0, {}),
    Key(<<"animation", "loop_count">>, TRUE, "integer from", 0, 0, {}),
    Key(<<"animation", "optimization">>, TRUE, "valid", 0, 0, {"low", "medium", "high"}),
    Key(<<"animation", "color_palette">>, TRUE, "valid", 0, 0, {"auto", "web", "adaptive"}),
    Key(<<"animation", "dithering">>, TRUE, "boolean", 0, 0, {}),
    Key(<<"trait_processing_order">>, TRUE, "array", 1, 0, {"strings"}),
    Key(<<"incompatible_traits">>, TRUE, "pattern", 0, 0, {"", "string arrays"}),
    Key(<<"forced_pairings">>, TRUE, "pattern", 0, 0, {"", "string arrays"}),
    Key(<<"dependent_traits">>, FALSE, "pattern", 0, 0, {"", "strings"}),
    Key(<<"exclusive_groups">>, FALSE, "pattern", 0, 0, {"", "string arrays"}),
    Key(<<"conditional_rarity">>, FALSE, "pattern", 0, 0, {"", "number maps"}),
    Key(<<"metadata">>, TRUE, "object", 0, 0, {}),
    Key(<<"metadata", "name_prefix">>, TRUE, "string", 0, 0, {}),
    Key(<<"metadata", "description">>, TRUE, "string", 0, 0, {}),
    Key(<<"metadata", "external_url">>, TRUE, "uri", 0, 0, {}),
    Key(<<"metadata", "image_base_uri">>, TRUE, "uri", 0, 0, {}),
    Key(<<"metadata", "animation_base_uri">>, TRUE, "uri", 0, 0, {}),
    Key(<<"metadata", "background_color">>, FALSE, "hex", 0, 0, {}),
    Key(<<"metadata", "solana">>, TRUE, "object", 0, 0, {}),
    Key(<<"metadata", "solana", "symbol">>, TRUE, "string", 0, 0, {}),
    Key(<<"metadata", "solana", "seller_fee_basis_points">>, TRUE, "integer", 0, 10000, {}),
    Key(<<"metadata", "solana", "collection">>, TRUE, "object", 0, 0, {}),
    Key(<<"metadata", "solana", "collection", "name">>, TRUE, "string", 0, 0, {}),
    Key(<<"metadata", "solana", "collection", "family">>, TRUE, "string", 0, 0, {}),
    Key(<<"metadata", "solana", "properties">>, TRUE, "object", 0, 0, {}),
    Key(<<"metadata", "solana", "properties", "files">>, TRUE, "array", 1, 0, {"files"}),
    Key(<<"metadata", "solana", "properties", "category">>, TRUE, "valid", 0, 0,
        {"image", "video", "audio", "vr", "html"}),
    Key(<<"metadata", "solana", "properties", "creators">>, FALSE, "array", 0, 0, {"creators"}),
    Key(<<"validation">>, TRUE, "object", 0, 0, {}),
    Key(<<"validation", "strict_mode">>, TRUE, "boolean", 0, 0, {}),
    Key(<<"validation", "validate_images">>, TRUE, "boolean", 0, 0, {}),
    Key(<<"validation", "check_duplicates">>, TRUE, "boolean", 0, 0, {}),
    Key(<<"validation", "max_retries">>, TRUE, "integer", 0, 10, {}) }

SchemaPaths == { key.path : key \in Schema }

KeyAt(path) == CHOOSE key \in Schema : key.path = path

\* Joi.string().uri(), on the strings the documents hold
IsUri(s) ==
  s \in { "https://example.com", "https://example.com/images/",
          "https://example.com/animations/" }

\* the value satisfies the rule of its key
Satisfies(key, value) ==
  IF key.kind = "object" THEN value.t = "object"
  ELSE IF key.kind = "integer"
  THEN value.t = "number" /\ key.lo <= value.n /\ value.n <= key.hi
  ELSE IF key.kind = "integer from" THEN value.t = "number" /\ key.lo <= value.n
  ELSE IF key.kind = "integer or null"
  THEN value.t = "null" \/ (value.t = "number" /\ key.lo <= value.n)
  ELSE IF key.kind = "valid" THEN value.t = "string" /\ value.s \in key.opts
  ELSE IF key.kind = "valid or integer"
  THEN \/ value.t = "string" /\ value.s \in key.opts
       \/ value.t = "number" /\ key.lo <= value.n /\ value.n <= key.hi
  ELSE IF key.kind = "boolean" THEN value.t = "boolean"
  ELSE IF key.kind = "memory" THEN value.t = "string" /\ value.s \in {"4GB", "512MB"}
  ELSE IF key.kind = "string" THEN value.t = "string" /\ value.s # ""
  ELSE IF key.kind = "uri" THEN value.t = "string" /\ IsUri(value.s)
  ELSE IF key.kind = "hex" THEN value.t = "string" /\ value.s \in {"ffffff"}
  ELSE IF key.kind = "array"
  THEN value.t = "array" /\ value.n >= key.lo /\ (value.n = 0 \/ value.s \in key.opts)
  ELSE value.t = "object" /\ value.s \in key.opts

NothingRequired(path) == FALSE

\* the key is .required()
Required(path) == KeyAt(path).required

Parent(path) == SubSeq(path, 1, Len(path) - 1)

\* the keys Joi reports for the document (abortEarly: false): a required
\* key missing from an object that is there, or a value breaking its rule
Errors(document) ==
  { path \in SchemaPaths :
      \/ /\ path \notin DOMAIN document
         /\ Required(path)
         /\ (Len(path) = 1 \/ Parent(path) \in DOMAIN document)
      \/ /\ path \in DOMAIN document
         /\ ~ Satisfies(KeyAt(path), document[path]) }

\* new GeneratorError(CONFIG_ERROR, 'Configuration validation failed',
\* { errors })
ConfigError(errors) ==
  [type |-> "CONFIG_ERROR", context |-> [errors |-> errors], recoverable |-> FALSE]

\* createDefaultConfig()
DefaultConfig ==
  (<<"generation">> :> Obj)
  @@ (<<"generation", "total_nfts">> :> Num(1000))
  @@ (<<"generation", "frames_per_animation">> :> Num(24))
  @@ (<<"generation", "dimensions">> :> Obj)
  @@ (<<"generation", "dimensions", "width">> :> Num(512))
  @@ (<<"generation", "dimensions", "height">> :> Num(512))
  @@ (<<"generation", "upscaling">> :> Str("nearest_neighbour"))
  @@ (<<"generation", "frame_rate">> :> Num(24))
  @@ (<<"generation", "output_format">> :> Str("gif"))
  @@ (<<"generation", "batch_size">> :> Num(100))
  @@ (<<"generation", "max_concurrent">> :> Num(4))
  @@ (<<"generation", "resume_from">> :> Null)
  @@ (<<"performance">> :> Obj)
  @@ (<<"performance", "worker_threads">> :> Bool)
  @@ (<<"performance", "gpu_acceleration">> :> Str("auto"))
  @@ (<<"performance", "memory_limit">> :> Str("4GB"))
  @@ (<<"performance", "cpu_cores">> :> Str("auto"))
  @@ (<<"animation">> :> Obj)
  @@ (<<"animation", "loop_count">> :> Num(0))
  @@ (<<"animation", "optimization">> :> Str("high"))
  @@ (<<"animation", "color_palette">> :> Str("auto"))
  @@ (<<"animation", "dithering">> :> Bool)
  @@ (<<"trait_processing_order">> :> Arr(5, "strings"))
  @@ (<<"incompatible_traits">> :> Map(""))
  @@ (<<"forced_pairings">> :> Map(""))
  @@ (<<"metadata">> :> Obj)
  @@ (<<"metadata", "name_prefix">> :> Str("AnimatedNFT"))
  @@ (<<"metadata", "description">> :> Str("Unique animated NFT collection"))
  @@ (<<"metadata", "external_url">> :> Str("https://example.com"))
  @@ (<<"metadata", "image_base_uri">> :> Str("https://example.com/images/"))
  @@ (<<"metadata", "animation_base_uri">> :> Str("https://example.com/animations/"))
  @@ (<<"metadata", "solana">> :> Obj)
  @@ (<<"metadata", "solana", "symbol">> :> Str("ANFT"))
  @@ (<<"metadata", "solana", "seller_fee_basis_points">> :> Num(500))
  @@ (<<"metadata", "solana", "collection">> :> Obj)
  @@ (<<"metadata", "solana", "collection", "name">> :> Str("Animated NFT Collection"))
  @@ (<<"metadata", "solana", "collection", "family">> :> Str("AnimatedNFT"))
  @@ (<<"metadata", "solana", "properties">> :> Obj)
  @@ (<<"metadata", "solana", "properties", "files">> :> Arr(2, "files"))
  @@ (<<"metadata", "solana", "properties", "category">> :> Str("image"))
  @@ (<<"metadata", "solana", "properties", "creators">> :> Arr(1, "creators"))
  @@ (<<"validation">> :> Obj)
  @@ (<<"validation", "strict_mode">> :> Bool)
  @@ (<<"validation", "validate_images">> :> Bool)
  @@ (<<"validation", "check_duplicates">> :> Bool)
  @@ (<<"validation", "max_retries">> :> Num(3))

\* the document without the key at path and without what lies below it
Without(document, path) ==
  [p \in { q \in DOMAIN document :
             ~ (Len(q) >= Len(path) /\ SubSeq(q, 1, Len(path)) = path) }
     |-> document[p]]

\* the document of the unit test 'should validate a correct configuration':
\* no metadata.solana, two categories
TestConfig ==
  [Without(DefaultConfig, <<"metadata", "solana">>) EXCEPT
     ![<<"trait_processing_order">>] = Arr(2, "strings"),
     ![<<"metadata", "name_prefix">>] = Str("TestNFT"),
     ![<<"metadata", "description">>] = Str("Test collection")]

\* the keys with a numeric range, and numbers at and around its ends
Ranged == { key \in Schema : key.kind \in {"integer", "integer from", "valid or integer"} }

Samples(key) ==
  IF key.kind = "integer from" THEN { key.lo - 1, key.lo }
  ELSE { key.lo - 1, key.lo, key.hi, key.hi + 1 }

\* the documents given to validate: the default and the test document, each
\* also with one key removed or one number replaced
Documents ==
  UNION { {base}
          \cup { Without(base, path) : path \in DOMAIN base }
          \cup UNION { { [base EXCEPT ![key.path] = Num(n)] : n \in Samples(key) } :
                       key \in { k \in Ranged : k.path \in DOMAIN base } } :
          base \in {DefaultConfig, TestConfig} }

\* one call of validate(config)
Validate ==
  /\ pc = "call"
  /\ call.fn = "validate"
  /\ call.value = << >>
  /\ LET errors == Errors(call.arg[1])
     IN IF errors # {}
        THEN call' = [call EXCEPT !.threw = TRUE, !.value = << ConfigError(errors) >>]
        ELSE call' = [call EXCEPT !.value = << call.arg[1] >>]
  /\ UNCHANGED << config, count, catalog, pc, combinations, attempts, duplicates,
                  usedCombinations, batch, ri, fatalLogged, error, traitCache,
                  validationResult, validatedOnce, rarityTracker,
                  hierarchy, progress, checkpointFile >>

InitConfig ==
  InitCall({ Called("validate", << document >>) : document \in Documents })

SpecConfig == InitConfig /\ [][Validate]_vars

\* ------------------------------------------------ the phases of generate
\* the awaited calls of Generator.generate, in program order
Phases ==
  << "cleanOutput", "validate", "generateMetadata", "generateFramesDirectly",
     "assembleAnimations", "cleanupIntermediateFiles" >>

\* the phases of one call: cleanOutput is skipped when options.resume is set
PhasesOf(resume) == IF resume THEN Tail(Phases) ELSE Phases

\* what a phase can throw: a GeneratorError of any ErrorType, or another Error
ErrorTypes ==
  { "VALIDATION_ERROR", "PROCESSING_ERROR", "FILE_ERROR", "CONFIG_ERROR",
    "DUPLICATE_ERROR", "MEMORY_ERROR", "GPU_ERROR", "WORKER_ERROR", "Error" }

\* generate(options) has been called: no phase started yet
GenerateCalled(resume) ==
  [fn |-> "generate", arg |-> << resume >>, threw |-> FALSE, value |-> << >>,
   started |-> << >>, running |-> FALSE]

\* the next awaited call is made
StartPhase ==
  /\ pc = "generate"
  /\ ~ call.running
  /\ Len(call.started) < Len(PhasesOf(call.arg[1]))
  /\ call' = [call EXCEPT
                !.started = Append(@, PhasesOf(call.arg[1])[Len(call.started) + 1]),
                !.running = TRUE]
  /\ UNCHANGED << config, count, catalog, pc, combinations, attempts, duplicates,
                  usedCombinations, batch, ri, fatalLogged, error, traitCache,
                  validationResult, validatedOnce, rarityTracker,
                  hierarchy, progress, checkpointFile >>

\* the awaited call resolves; after the last one generate returns
PhaseCompletes ==
  /\ pc = "generate"
  /\ call.running
  /\ call' = [call EXCEPT !.running = FALSE]
  /\ pc' = IF Len(call.started) = Len(PhasesOf(call.arg[1])) THEN "returned"
           ELSE "generate"
  /\ UNCHANGED << config, count, catalog, combinations, attempts, duplicates,
                  usedCombinations, batch, ri, fatalLogged, error, traitCache,
                  validationResult, validatedOnce, rarityTracker,
                  hierarchy, progress, checkpointFile >>

GoesOnAfterThrow(phase) == "generate"

\* where generate stands after the awaited call rejected: the catch block
\* logs and rethrows
AfterThrow(phase) == "thrown"

\* the awaited call rejects
PhaseThrows ==
  /\ pc = "generate"
  /\ call.running
  /\ \E type \in ErrorTypes :
       LET thrown == [type |-> type, context |-> << >>, recoverable |-> FALSE]
       IN /\ call' = [call EXCEPT !.running = FALSE, !.threw = TRUE,
                                  !.value = << thrown >>]
          /\ error' = << thrown >>
  /\ pc' = AfterThrow(call.started[Len(call.started)])
  /\ UNCHANGED << config, count, catalog, combinations, attempts, duplicates,
                  usedCombinations, batch, ri, fatalLogged, traitCache,
                  validationResult, validatedOnce, rarityTracker,
                  hierarchy, progress, checkpointFile >>

InitPhases ==
  /\ InitSelector({Cfg(NoRules, << >>, << >>, << >>, << >>)}, {0})
  /\ hierarchy = EmptyHierarchy
  /\ progress = << >>
  /\ checkpointFile = << >>
  /\ pc = "generate"
  /\ validationResult = "null"
  /\ validatedOnce = FALSE
  /\ call \in { GenerateCalled(resume) : resume \in BOOLEAN }

NextPhases ==
  \/ StartPhase
  \/ PhaseCompletes
  \/ PhaseThrows

SpecPhases == InitPhases /\ [][NextPhases]_vars

\* ------------------------------------------- the layers directory parsed
\* A directory entry is a file or a directory with its own entries.  The
\* name of a trait folder is the sequence of its characters, as above; a
\* file name is kept whole (one element), since only its extension and its
\* number are read; the name of a trait type directory is kept as a string,
\* as it is never parsed.
File(name) == [name |-> name, isDirectory |-> FALSE, entries |-> << >>]

Dir(name, entries) == [name |-> name, isDirectory |-> TRUE, entries |-> entries]

\* entry.toLowerCase().endsWith('.png')
EndsWithPng(name) == name \in { <<"f0.png">>, <<"f1.png">>, <<"f0.png.png">> }

\* the name ends with .png, .jpg, .jpeg or .webp
EndsWithImage(name) == EndsWithPng(name)

\* entry.includes('.png.png') (or .jpg.jpg, .jpeg.jpeg)
DoubleExtension(name) == name = <<"f0.png.png">>

\* getNumber: the digits before the first '.' that follows digits, else 0
getNumber(name) == IF name = <<"f1.png">> THEN 1 ELSE 0

hasImageFiles(entries) == \E e \in Elems(entries) : EndsWithPng(e.name)

hasSubdirectories(entries) == \E e \in Elems(entries) : e.isDirectory

\* Array.prototype.sort with the comparator getNumber(a) - getNumber(b):
\* stable insertion of the names from index k on
RECURSIVE SortByNumber(_, _, _)
SortByNumber(k, names, sorted) ==
  IF k > Len(names) THEN sorted
  ELSE LET after == { i \in 1..Len(sorted) : getNumber(sorted[i]) > getNumber(names[k]) }
           at == IF after = {} THEN Len(sorted) + 1
                 ELSE CHOOSE i \in after : \A j \in after : i <= j
       IN SortByNumber(k + 1, names,
            SubSeq(sorted, 1, at - 1) \o << names[k] >> \o SubSeq(sorted, at, Len(sorted)))

\* getImageFiles: the .png names of the directory, sorted by their number
getImageFiles(entries) ==
  LET png == SelectSeq(entries, LAMBDA e : EndsWithPng(e.name))
      sorted == SortByNumber(1, [k \in 1..Len(png) |-> png[k].name], << >>)
  IN [k \in 1..Len(sorted) |-> sorted[k][1]]

\* validateLeafDirectory: the errors of one leaf directory
validateLeafDirectory(entries) ==
  (IF \E e \in Elems(entries) : DoubleExtension(e.name)
   THEN << "Double file extensions found" >> ELSE << >>)
  \o (IF \E e \in Elems(entries) : ~ EndsWithImage(e.name)
      THEN << "Non-image files found" >> ELSE << >>)

\* traits[key] = value on an object kept as its list of entries
Put(object, key, value) ==
  IF \E i \in 1..Len(object) : object[i][1] = key
  THEN LET i == CHOOSE i \in 1..Len(object) : object[i][1] = key
       IN [object EXCEPT ![i] = << key, value >>]
  ELSE Append(object, << key, value >>)

\* parseTraitType from entry k on: the traits object and the errors so far
RECURSIVE ParseFrom(_, _, _, _)
ParseFrom(k, entries, traits, errors) ==
  IF k > Len(entries) THEN [traits |-> traits, errors |-> errors]
  ELSE
    LET entry == entries[k]
        cleanName == folderOption(entry.name).name
        weight == folderOption(entry.name).weight
        weighed == IF weight < MIN_WEIGHT \/ weight > MAX_WEIGHT
                   THEN Append(errors, "Invalid weight") ELSE errors
        hasImages == hasImageFiles(entry.entries)
        hasSubdirs == hasSubdirectories(entry.entries)
    IN IF ~ entry.isDirectory
       THEN ParseFrom(k + 1, entries, traits,
                      Append(errors, "Invalid structure: file in trait directory"))
       ELSE IF hasImages /\ hasSubdirs
       THEN ParseFrom(k + 1, entries, traits,
                      Append(weighed, "Invalid structure: both files and subdirectories"))
       ELSE IF hasImages
       THEN ParseFrom(k + 1, entries,
                      Put(traits, cleanName,
                          LeafNode(weight,
                                   loopFramesToRequiredCount(getImageFiles(entry.entries),
                                                             RequiredFrameCount))),
                      weighed \o validateLeafDirectory(entry.entries))
       ELSE IF hasSubdirs
       THEN LET sub == ParseFrom(1, entry.entries, << >>, weighed)
            IN ParseFrom(k + 1, entries,
                         Put(traits, cleanName,
                             [weight |-> weight, frames |-> << >>, hasSubTraits |-> TRUE,
                              subTraits |-> sub.traits]),
                         sub.errors)
       ELSE ParseFrom(k + 1, entries, traits, Append(weighed, "Empty trait directory"))

parseTraitType(entries, errors) == ParseFrom(1, entries, << >>, errors)

\* parseTraitHierarchy from root entry k on
RECURSIVE HierarchyFrom(_, _, _, _)
HierarchyFrom(k, root, parsed, errors) ==
  IF k > Len(root) THEN [hierarchy |-> parsed, errors |-> errors]
  ELSE IF ~ root[k].isDirectory
  THEN HierarchyFrom(k + 1, root, parsed,
                     Append(errors, "Invalid structure: file in trait type directory"))
  ELSE LET traits == parseTraitType(root[k].entries, errors)
       IN HierarchyFrom(k + 1, root,
                        [c \in DOMAIN parsed \cup {root[k].name} |->
                           IF c = root[k].name THEN traits.traits ELSE parsed[c]],
                        traits.errors)

parseTraitHierarchy(root) == HierarchyFrom(1, root, EmptyHierarchy, << >>)

\* collectLeafTraits from entry k of traitData on: a node with frames is
\* pushed as an option of traitType, a node with subTraits is descended
RECURSIVE CollectFrom(_, _, _)
CollectFrom(k, traitData, traitType) ==
  IF k > Len(traitData) THEN << >>
  ELSE LET traitName == traitData[k][1]
           traitObj == traitData[k][2]
       IN (IF traitObj.frames # << >>
           THEN << Trait(traitType, traitName, traitObj.weight) >>
           ELSE IF traitObj.hasSubTraits
           THEN CollectFrom(1, traitObj.subTraits, traitType)
           ELSE << >>)
          \o CollectFrom(k + 1, traitData, traitType)

collectLeafTraits(traitData, traitType) == CollectFrom(1, traitData, traitType)

\* the folders and files a trait type directory of the model can hold, in
\* directory order: leaf folders with and without a weight, with a weight
\* below and above the range, an intermediate folder, a folder with a file
\* that is no image, an empty folder and a file
Frame0 == File(<<"f0.png">>)

TraitEntries ==
  << Dir(<<"a">>, << Frame0 >>),
     Dir(<<"a", "(", "0", ")">>, << Frame0 >>),
     Dir(<<"b", "(", "2", ")">>, << File(<<"f1.png">>), Frame0 >>),
     Dir(<<"b", "(", "2", "0", "0", "0", "0", ")">>, << Frame0 >>),
     Dir(<<"c">>, << Dir(<<"d", "(", "2", "0", ")">>, << Frame0 >>) >>),
     Dir(<<"d">>, << Frame0, File(<<"notes.txt">>) >>),
     Dir(<<"e">>, << >>),
     File(<<"notes.txt">>) >>

\* the layers directory: missing, or holding the trait type directory bg
\* with up to MaxEntries of the entries
LayerDirs ==
  { [exists |-> FALSE, entries |-> << >>] }
  \cup { [exists |-> TRUE, entries |-> << Dir("bg", Sub(TraitEntries, S)) >>] :
           S \in { T \in SUBSET (1..Len(TraitEntries)) : Cardinality(T) <= MaxEntries } }

ValidDespiteErrors(errors) == TRUE

\* const isValid = errors.length === 0
isValid(errors) == errors = << >>

\* validateStructure on the layers directory as it is found: throws when it
\* does not exist; else parses it, keeps the hierarchy and the result
ValidateStructureOn(dir) ==
  /\ pc = "parsed"
  /\ IF ~ dir.exists
     THEN /\ call' = [fn |-> "validateStructure", arg |-> << dir >>, threw |-> TRUE,
                      value |-> << ValidationError >>]
          /\ UNCHANGED << hierarchy, validationResult, validatedOnce >>
     ELSE LET parsed == parseTraitHierarchy(dir.entries)
              valid == isValid(parsed.errors)
          IN /\ hierarchy' = parsed.hierarchy
             /\ validationResult' = IF valid THEN "valid" ELSE "invalid"
             /\ validatedOnce' = (validatedOnce \/ valid)
             /\ call' = [fn |-> "validateStructure", arg |-> << dir >>, threw |-> FALSE,
                         value |-> << [isValid |-> valid, errors |-> parsed.errors] >>]
  /\ UNCHANGED << config, count, catalog, pc, combinations, attempts, duplicates,
                  usedCombinations, batch, ri, fatalLogged, error, traitCache,
                  rarityTracker, progress, checkpointFile >>

\* getAvailableTraits(traitType): the cached list; else the exception unless
\* the result is valid; else the leaves collected from the kept hierarchy,
\* which are cached ([] for a type the hierarchy does not have)
GetAvailableTraitsOf(traitType) ==
  /\ pc = "parsed"
  /\ IF traitType \in traitCache
     THEN /\ call' = [fn |-> "getAvailableTraits", arg |-> << traitType >>,
                      threw |-> FALSE, value |-> << catalog[traitType] >>]
          /\ UNCHANGED << catalog, traitCache >>
     ELSE IF validationResult # "valid"
     THEN /\ call' = [fn |-> "getAvailableTraits", arg |-> << traitType >>,
                      threw |-> TRUE, value |-> << ValidationError >>]
          /\ UNCHANGED << catalog, traitCache >>
     ELSE LET traits == IF traitType \in DOMAIN hierarchy
                        THEN collectLeafTraits(hierarchy[traitType], traitType)
                        ELSE << >>
          IN /\ catalog' = [c \in DOMAIN catalog \cup {traitType} |->
                              IF c = traitType THEN traits ELSE catalog[c]]
             /\ traitCache' = traitCache \cup {traitType}
             /\ call' = [fn |-> "getAvailableTraits", arg |-> << traitType >>,
                         threw |-> FALSE, value |-> << traits >>]
  /\ UNCHANGED << config, count, pc, combinations, attempts, duplicates,
                  usedCombinations, batch, ri, fatalLogged, error,
                  validationResult, validatedOnce, rarityTracker, hierarchy, progress, checkpointFile >>

\* a fresh LayerProcessor: empty cache, empty hierarchy, no result
InitParsed ==
  /\ InitSelectorOn(EmptyHierarchy, {Cfg(NoRules, << >>, << >>, << >>, << >>)}, {0})
  /\ hierarchy = EmptyHierarchy
  /\ progress = << >>
  /\ checkpointFile = << >>
  /\ pc = "parsed"
  /\ validationResult = "null"
  /\ validatedOnce = FALSE
  /\ call = NoCall

NextParsed ==
  \/ \E dir \in LayerDirs : ValidateStructureOn(dir)
  \/ \E traitType \in {"bg", "hat"} : GetAvailableTraitsOf(traitType)

SpecParsed == InitParsed /\ [][NextParsed]_vars

\* ------------------------------------------- the two filters on their own
\* the keys of the rule tables: the first option of each of the two
\* categories, under its compound key and under its bare name
FilterKeys == << <<"bg", "Red">>, <<"Red">>, <<"body", "Robot">>, <<"Robot">> >>

\* the category being processed, first among the members a group may list
GroupKeys == << <<"body">> >> \o FilterKeys

Subs(keys, n) ==
  { Sub(keys, S) : S \in { T \in SUBSET (1..Len(keys)) : Cardinality(T) <= n } }

\* incompatible_traits maps: any of the keys, each with a list of keys
IncompatTables ==
  UNION { [K -> Subs(FilterKeys, MaxListed)] : K \in SUBSET Elems(FilterKeys) }

\* Object.entries of exclusive_groups maps: up to MaxGroups named groups
GroupTables ==
  UNION { [1..n -> Subs(GroupKeys, Len(GroupKeys))] : n \in 0..MaxGroups }

GroupEntries(table) == [g \in 1..Len(table) |-> << ToString(g), table[g] >>]

\* the selection when the second category of the order is reached
SelectedFirst == { << BaseCatalog["bg"][k] >> : k \in 1..Len(BaseCatalog["bg"]) }

\* generateSingleCombination's call of applyIncompatibilityRules
ApplyIncompatibility ==
  /\ pc = "call"
  /\ call.fn = "applyIncompatibilityRules"
  /\ call.value = << >>
  /\ call' = [call EXCEPT !.value = << applyIncompatibilityRules(call.arg[1], call.arg[2]) >>]
  /\ UNCHANGED << config, count, catalog, pc, combinations, attempts, duplicates,
                  usedCombinations, batch, ri, fatalLogged, error, traitCache,
                  validationResult, validatedOnce, rarityTracker,
                  hierarchy, progress, checkpointFile >>

\* generateSingleCombination's call of applyExclusiveGroupRules
ApplyExclusiveGroups ==
  /\ pc = "call"
  /\ call.fn = "applyExclusiveGroupRules"
  /\ call.value = << >>
  /\ call' = [call EXCEPT !.value =
                 << applyExclusiveGroupRules(call.arg[1], call.arg[2], call.arg[3]) >>]
  /\ UNCHANGED << config, count, catalog, pc, combinations, attempts, duplicates,
                  usedCombinations, batch, ri, fatalLogged, error, traitCache,
                  validationResult, validatedOnce, rarityTracker,
                  hierarchy, progress, checkpointFile >>

\* a selector with one rule table, and one filter about to be called for the
\* second category with the options served for it
InitFilters ==
  /\ \/ /\ InitSelector({ Cfg(inc, << >>, << >>, << >>, << >>) : inc \in IncompatTables },
                         {0})
        /\ call \in { Called("applyIncompatibilityRules",
                              << getAvailableTraits(BaseCatalog, "body"), selected >>) :
                         selected \in SelectedFirst }
     \/ /\ InitSelector({ Cfg(NoRules, << >>, << >>, GroupEntries(table), << >>) :
                             table \in GroupTables }, {0})
        /\ call \in { Called("applyExclusiveGroupRules",
                              << "body", getAvailableTraits(BaseCatalog, "body"), selected >>) :
                         selected \in SelectedFirst }
  /\ hierarchy = FlatHierarchy(BaseCatalog)
  /\ progress = << >>
  /\ checkpointFile = << >>
  /\ pc = "call"
  /\ validationResult = "valid"
  /\ validatedOnce = TRUE

NextFilters ==
  \/ ApplyIncompatibility
  \/ ApplyExclusiveGroups

SpecFilters == InitFilters /\ [][NextFilters]_vars

\* ------------------------------------------------ restricted rule tables
\* runs whose only rules are incompatibilities
InitIncompat ==
  /\ Init
  /\ DOMAIN config.incompatible_traits # {}
  /\ config.forced_pairings = << >>

SpecIncompat == InitIncompat /\ [][Next]_vars

\* runs whose only rules are forced pairings triggered by an option of the
\* first category of trait_processing_order
InitForced ==
  /\ Init
  /\ config.forced_pairings # << >>
  /\ DOMAIN config.incompatible_traits = {}
  /\ \A k \in 1..Len(config.forced_pairings) :
       \E t \in Elems(BaseCatalog[config.trait_processing_order[1]]) :
         t.name[1] = getTraitNameFromConfigKey(config.forced_pairings[k][1])

SpecForced == InitForced /\ [][Next]_vars

\* runs without rules, for a count whose budget the rounds can overshoot
InitBudget ==
  InitWith({ c \in Configs : /\ DOMAIN c.incompatible_traits = {}
                             /\ c.forced_pairings = << >>
                             /\ c.dependent_traits = << >>
                             /\ c.exclusive_groups = << >>
                             /\ c.conditional_rarity = << >> },
           {OvershootCount})

SpecBudget == InitBudget /\ [][Next]_vars

\* a layers directory with two backgrounds and one body
ScenarioCatalog ==
  [c \in {"bg", "body"} |->
     IF c = "bg"
     THEN << Trait("bg", <<"Red">>, 1), Trait("bg", <<"Blue">>, 1) >>
     ELSE << Trait("body", <<"Human">>, 1) >>]

\* the counts asked of that directory: its two signatures, and one more
ScenarioCounts == {2, 3}

\* generateCombinations on that directory, without rules
InitScenario ==
  /\ InitSelectorOn(ScenarioCatalog, {Cfg(NoRules, << >>, << >>, << >>, << >>)},
                    ScenarioCounts)
  /\ hierarchy = FlatHierarchy(ScenarioCatalog)
  /\ progress = << >>
  /\ checkpointFile = << >>
  /\ pc = "loop"
  /\ validationResult = "valid"
  /\ validatedOnce = TRUE
  /\ call = NoCall

SpecScenario == InitScenario /\ [][Next]_vars

\* ------------------------------------------ successive calls on one selector
\* the counts asked of one TraitSelector, call after call
SuccessiveCounts == {1, 2}

\* the seen-signatures set, had the method emptied it on entry
ClearedOnEntry(used) == {}

\* usedCombinations as a call of generateCombinations finds it: the field is
\* initialised with the instance and the method does not touch it before
\* its loop
SeenOnEntry(used) == used

\* generateCombinations(n) is called on the TraitSelector whose earlier call
\* has returned (previewTraits, then generateMetadata, on one Generator):
\* combinations, attempts and duplicates are new locals, the instance's
\* fields are what the earlier call left
GenerateCombinationsAgain ==
  /\ pc = "done"
  /\ \E n \in SuccessiveCounts : count' = n
  /\ combinations' = << >>
  /\ attempts' = 0
  /\ duplicates' = 0
  /\ batch' = << >>
  /\ ri' = 1
  /\ fatalLogged' = FALSE
  /\ usedCombinations' = SeenOnEntry(usedCombinations)
  /\ pc' = "loop"
  /\ UNCHANGED << config, catalog, traitCache, env >>

\* a fresh selector on the directory of two backgrounds and one body
InitSuccessive ==
  /\ InitSelectorOn(ScenarioCatalog, {Cfg(NoRules, << >>, << >>, << >>, << >>)},
                    SuccessiveCounts)
  /\ hierarchy = FlatHierarchy(ScenarioCatalog)
  /\ progress = << >>
  /\ checkpointFile = << >>
  /\ pc = "loop"
  /\ validationResult = "valid"
  /\ validatedOnce = TRUE
  /\ call = NoCall

NextSuccessive == Next \/ GenerateCombinationsAgain

SpecSuccessive == InitSuccessive /\ [][NextSuccessive]_vars

\* ------------------------------------------------------------ wide rounds
\* a layers directory with one category of MaxWideCount options
WideCatalog ==
  [c \in {"bg"} |-> [k \in 1..MaxWideCount |-> Trait("bg", << ToString(k) >>, 1)]]

\* the first round of a call, settled: its attempts in launch order, the
\* first accepted ones having drawn an option each, the others the first
\* option again
SettledFirstRound(launched, accepted) ==
  [i \in 1..launched |->
     [id |-> i,
      selectedTraits |-> << WideCatalog["bg"][IF i <= accepted THEN i ELSE 1] >>,
      layer |-> 2, status |-> "fulfilled", reason |-> << >>]]

\* generateCombinations on that directory at its while test: on entry, or
\* after a first round that accepted some of its attempts and counted the
\* others as duplicates
InitWide ==
  /\ config = CfgOrdered(<<"bg">>, NoRules, << >>, << >>, << >>, << >>)
  /\ count \in 1..MaxWideCount
  /\ catalog = WideCatalog
  /\ hierarchy = FlatHierarchy(WideCatalog)
  /\ progress = << >>
  /\ checkpointFile = << >>
  /\ pc = "loop"
  /\ \E accepted \in 0..Min(MaxBatch, count) :
       LET launched == IF accepted = 0 THEN 0 ELSE Min(MaxBatch, count)
           round == SettledFirstRound(launched, accepted)
       IN /\ batch = round
          /\ ri = launched + 1
          /\ attempts = launched
          /\ duplicates = launched - accepted
          /\ combinations = [k \in 1..accepted |->
                               createTraitCombination(NewRarityCalculator, round[k].id,
                                                      round[k].selectedTraits)]
          /\ usedCombinations = { getCombinationKey(combinations[k]) : k \in 1..accepted }
          /\ traitCache = IF accepted = 0 THEN {} ELSE {"bg"}
  /\ fatalLogged = FALSE
  /\ error = << >>
  /\ rarityTracker = NewRarityCalculator
  /\ validationResult = "valid"
  /\ validatedOnce = TRUE
  /\ call = NoCall

\* the while test and, when it passes, the launch of the next round
NextWide ==
  \/ Launch
  \/ Return

SpecWide == InitWide /\ [][NextWide]_vars

\* ------------------------------------------------------ ProgressTracker
\* the instants new Date() returns
Dates == 1..MaxDate

\* a Date object, and the string JSON.stringify makes of it
Date(instant) == << "Date", instant >>

toISOString(date) == << "string", date[2] >>

\* new GeneratorError(type, message): context undefined, recoverable false
GeneratorError(type, message) ==
  [name |-> "GeneratorError", type |-> type, message |-> message, recoverable |-> FALSE]

\* JSON.stringify of an error keeps its own enumerable properties: not the
\* message; an error read from a file before is a plain object already
errorToJSON(e) == [name |-> e.name, type |-> e.type, recoverable |-> e.recoverable]

\* what writeJson puts in the file for a progress object, which is what
\* readJson gives back
toJSON(p) ==
  [currentStep |-> p.currentStep,
   completed |-> p.completed,
   total |-> p.total,
   startTime |-> toISOString(p.startTime),
   lastCheckpoint |-> toISOString(p.lastCheckpoint),
   errors |-> [k \in 1..Len(p.errors) |-> errorToJSON(p.errors[k])]]

\* the object saveProgress and addError create when there is none
NewProgress(instant) ==
  [currentStep |-> "metadata", completed |-> 0, total |-> 0,
   startTime |-> Date(instant), lastCheckpoint |-> Date(instant), errors |-> << >>]

\* this.progress after saveProgress(completed, total) called at instant now
\* on the progress p, created at instant start when p is null
saveProgress(p, completed, total, start, now) ==
  LET object == IF p = << >> THEN NewProgress(start) ELSE p[1]
  IN << [object EXCEPT !.completed = completed, !.total = total,
                       !.lastCheckpoint = Date(now)] >>

\* how ensureDir and writeJson end
WriteOutcomes == {"written", "fails"}

\* the checkpoint file after the try block of saveProgress
Written(file, p, outcome) ==
  IF outcome = "written" THEN << toJSON(p[1]) >> ELSE file

\* a failing write is thrown on to the caller
WriteFailureRethrown(outcome) == outcome = "fails"

\* saveProgress catches what ensureDir or writeJson throws and logs it
WriteFailureThrown(outcome) == FALSE

\* the pairs saveProgress is called with
Saved == { << 1, 2 >>, << 2, 2 >> }

\* the steps updateStep is called with
Steps == {"metadata", "frames"}

\* the error addError is called with
FileError == GeneratorError("FILE_ERROR", "frame missing")

ProcessingError == GeneratorError("PROCESSING_ERROR", "Progress tracker not initialized")

\* saveProgress(completed, total)
SaveProgress ==
  /\ pc = "tracker"
  /\ \E pair \in Saved, start, now \in Dates, outcome \in WriteOutcomes :
       /\ start <= now
       /\ progress' = saveProgress(progress, pair[1], pair[2], start, now)
       /\ checkpointFile' = Written(checkpointFile, progress', outcome)
       /\ call' = [fn |-> "saveProgress", arg |-> pair,
                   threw |-> WriteFailureThrown(outcome), value |-> << >>]
  /\ UNCHANGED << config, count, catalog, pc, combinations, attempts, duplicates,
                  usedCombinations, batch, ri, fatalLogged, error,
                  validationResult, validatedOnce, traitCache, rarityTracker,
                  hierarchy >>

\* loadProgress(): the file's content becomes the progress and is returned;
\* null is returned, and the progress kept, when there is no file or
\* reading it fails
LoadProgress ==
  /\ pc = "tracker"
  /\ \E outcome \in {"read", "fails"} :
       IF checkpointFile # << >> /\ outcome = "read"
       THEN /\ progress' = checkpointFile
            /\ call' = [fn |-> "loadProgress", arg |-> << >>, threw |-> FALSE,
                        value |-> checkpointFile]
       ELSE /\ UNCHANGED progress
            /\ call' = [fn |-> "loadProgress", arg |-> << >>, threw |-> FALSE,
                        value |-> << >>]
  /\ UNCHANGED << config, count, catalog, pc, combinations, attempts, duplicates,
                  usedCombinations, batch, ri, fatalLogged, error,
                  validationResult, validatedOnce, traitCache, rarityTracker,
                  hierarchy, checkpointFile >>

\* updateStep(step): throws without a progress; else sets the step and
\* saves with the progress's own completed and total
UpdateStep ==
  /\ pc = "tracker"
  /\ \E step \in Steps, now \in Dates, outcome \in WriteOutcomes :
       IF progress = << >>
       THEN /\ call' = [fn |-> "updateStep", arg |-> << step >>, threw |-> TRUE,
                        value |-> << ProcessingError >>]
            /\ UNCHANGED << progress, checkpointFile >>
       ELSE LET stepped == [progress[1] EXCEPT !.currentStep = step]
            IN /\ progress' = saveProgress(<< stepped >>, stepped.completed,
                                           stepped.total, now, now)
               /\ checkpointFile' = Written(checkpointFile, progress', outcome)
               /\ call' = [fn |-> "updateStep", arg |-> << step >>,
                           threw |-> WriteFailureThrown(outcome), value |-> << >>]
  /\ UNCHANGED << config, count, catalog, pc, combinations, attempts, duplicates,
                  usedCombinations, batch, ri, fatalLogged, error,
                  validationResult, validatedOnce, traitCache, rarityTracker,
                  hierarchy >>

\* addError(error): creates the progress when there is none, pushes the
\* error and saves
AddError ==
  /\ pc = "tracker"
  /\ progress # << >> => Len(progress[1].errors) < MaxErrors
  /\ \E start, now \in Dates, outcome \in WriteOutcomes :
       /\ start <= now
       /\ LET object == IF progress = << >> THEN NewProgress(start) ELSE progress[1]
              pushed == [object EXCEPT !.errors = Append(@, FileError)]
          IN progress' = saveProgress(<< pushed >>, pushed.completed, pushed.total,
                                      start, now)
       /\ checkpointFile' = Written(checkpointFile, progress', outcome)
       /\ call' = [fn |-> "addError", arg |-> << FileError >>,
                   threw |-> WriteFailureThrown(outcome), value |-> << >>]
  /\ UNCHANGED << config, count, catalog, pc, combinations, attempts, duplicates,
                  usedCombinations, batch, ri, fatalLogged, error,
                  validationResult, validatedOnce, traitCache, rarityTracker,
                  hierarchy >>

\* clearProgress(): removes the file if there is one, then forgets the
\* progress; a removal that fails is logged and the progress stays
ClearProgress ==
  /\ pc = "tracker"
  /\ \E outcome \in {"removed", "fails"} :
       IF checkpointFile # << >> /\ outcome = "fails"
       THEN UNCHANGED << progress, checkpointFile >>
       ELSE progress' = << >> /\ checkpointFile' = << >>
  /\ call' = [fn |-> "clearProgress", arg |-> << >>, threw |-> FALSE, value |-> << >>]
  /\ UNCHANGED << config, count, catalog, pc, combinations, attempts, duplicates,
                  usedCombinations, batch, ri, fatalLogged, error,
                  validationResult, validatedOnce, traitCache, rarityTracker,
                  hierarchy >>

\* the checkpoint an earlier run has left: the frames step, 1 of 2 done
EarlierCheckpoint ==
  toJSON([NewProgress(1) EXCEPT !.currentStep = "frames", !.completed = 1, !.total = 2])

\* a new ProgressTracker, with or without a checkpoint file on the disk
InitTracker ==
  /\ InitSelectorOn(EmptyHierarchy, {Cfg(NoRules, << >>, << >>, << >>, << >>)}, {0})
  /\ hierarchy = EmptyHierarchy
  /\ pc = "tracker"
  /\ validationResult = "null"
  /\ validatedOnce = FALSE
  /\ call = NoCall
  /\ progress = << >>
  /\ checkpointFile \in { << >>, << EarlierCheckpoint >> }

NextTracker ==
  \/ SaveProgress
  \/ LoadProgress
  \/ UpdateStep
  \/ AddError
  \/ ClearProgress

SpecTracker == InitTracker /\ [][NextTracker]_vars

\* ---------------------------------------------------------- properties
\* the option t is the one a configuration key names: 'Category:Name' or 'Name'
OptionMatches(t, key) ==
  \/ << t.type, t.name[1] >> = key
  \/ << t.name[1] >> = key

Contains(traits, key) == (\E t \in Elems(traits) : OptionMatches(t, key))

\* C1: no two combinations of the accepted list have the same canonical
\* signature, also when both attempts settled in the same round.
C1_DistinctSignatures ==
  \A i, j \in 1..Len(combinations) :
    i # j => getCombinationKey(combinations[i]) # getCombinationKey(combinations[j])

\* two attempts of one round settled with the same signature and both have
\* been processed: one was accepted, the other counted as a duplicate
C1_Witness ==
  /\ pc = "process"
  /\ Len(combinations) >= 1
  /\ duplicates >= 1
  /\ \E i, j \in 1..Len(batch) :
       /\ i < j /\ j < ri
       /\ batch[i].status = "fulfilled" /\ batch[j].status = "fulfilled"
       /\ batch[i].selectedTraits = batch[j].selectedTraits

\* C2: the k-th combination appended to the accepted list carries id k.
C2_IdIsPosition ==
  \A k \in 1..Len(combinations) : combinations[k].id = k

\* C3: the attempt counter never exceeds count * 10.
C3_AttemptsWithinBudget == attempts <= count * AttemptFactor

\* C4: generateCombinations terminates: the call eventually returns.
C4_Terminates == <>(pc = "done")

\* the call has returned although every attempt of the run failed
C4_Witness ==
  /\ pc = "done"
  /\ count > 0
  /\ attempts >= count * AttemptFactor
  /\ Len(combinations) = 0 /\ duplicates = 0
  /\ fatalLogged

\* C5: on return the accepted list is full or the budget is spent, and the
\* accepted list is never longer than count.
C5_ReturnCondition ==
  /\ pc = "done" => (Len(combinations) = count \/ attempts >= count * AttemptFactor)
  /\ Len(combinations) <= count

\* the call has returned short of count with the budget spent, after a round
\* narrower than the first
C5_Witness ==
  /\ pc = "done"
  /\ 0 < Len(combinations) /\ Len(combinations) < count
  /\ attempts >= count * AttemptFactor
  /\ Len(batch) < Min(MaxBatch, count)

\* the traits hold exactly one option per category, in processing order
OnePerCategory(traits) ==
  /\ Len(traits) = Len(config.trait_processing_order)
  /\ \A k \in 1..Len(traits) : traits[k].type = config.trait_processing_order[k]

C7_NoIncompatiblePair ==
  \A c \in 1..Len(combinations) :
    \A K \in DOMAIN config.incompatible_traits :
      \A l \in 1..Len(config.incompatible_traits[K]) :
        ~ ( /\ Contains(combinations[c].traits, K)
            /\ Contains(combinations[c].traits, config.incompatible_traits[K][l]) )

\* C8: for every forced_pairings entry, every accepted combination that
\* contains the trigger has the forced option, and no other, in the forced
\* option's category; keys may be 'Category:Name' or a bare name.
C8_ForcedPresent ==
  \A c \in 1..Len(combinations) :
    \A k \in 1..Len(config.forced_pairings) :
      LET trigger == config.forced_pairings[k][1]
          forced == config.forced_pairings[k][2]
          traits == combinations[c].traits
      IN Contains(traits, trigger) =>
           /\ Contains(traits, forced)
           /\ \A x, y \in 1..Len(traits) :
                (OptionMatches(traits[x], forced) /\ traits[y].type = traits[x].type)
                  => x = y

\* C9: in a category step that reaches the dependent-trait stage, every
\* dependent option whose trigger is selected, that is not yet selected and
\* that resolves in the catalog is in the attempt's selection after the step.
C9_DependentAppended ==
  [][ \A i \in 1..Len(batch) :
        ( /\ pc = "await" /\ pc' = "await"
          /\ batch'[i] # batch[i]
          /\ applyForcedPairings(config.trait_processing_order[batch[i].layer],
                                 batch[i].selectedTraits, catalog) = << >> )
        => \A k \in 1..Len(config.dependent_traits) :
             LET triggerKey == config.dependent_traits[k][1]
                 dependentKey == config.dependent_traits[k][2]
                 selected == batch[i].selectedTraits
             IN ( /\ Contains(selected, triggerKey)
                  /\ ~ Contains(selected, dependentKey)
                  /\ Contains(getAvailableTraits(catalog, dependentKey[1]), dependentKey) )
                => Contains(batch'[i].selectedTraits, dependentKey) ]_vars

\* C10: when conditional_rarity sets a target's weight to 0 for a trigger, no
\* accepted combination contains the trigger and the target, provided another
\* candidate of the target's category had a positive weight when the
\* category was processed.
C10_ZeroWeightExcluded ==
  \A c \in 1..Len(combinations) :
    \A k \in 1..Len(config.conditional_rarity) :
      \A a \in 1..Len(config.conditional_rarity[k][2]) :
        LET trigger == config.conditional_rarity[k][1]
            target == config.conditional_rarity[k][2][a][1]
            weight == config.conditional_rarity[k][2][a][2]
            traits == combinations[c].traits
        IN \A x \in 1..Len(traits) :
             ( /\ weight = 0
               /\ OptionMatches(traits[x], target)
               /\ Contains(traits, trigger)
               /\ \E t \in Elems(Candidates(traits[x].type, SubSeq(traits, 1, x - 1),
                                             catalog)) :
                    t.weight > 0 /\ ~ OptionMatches(t, target) )
             => FALSE

\* C11: the catalog is read-only during generation: for every category the
\* option list getAvailableTraits serves is, after any number of attempts in
\* any interleaving, the list it served before the first attempt.
C11_CatalogReadOnly ==
  \A traitType \in DOMAIN BaseCatalog :
    getAvailableTraits(catalog, traitType) = getAvailableTraits(BaseCatalog, traitType)

\* the attempt failed because a category was left without candidates
FailedOnEmptyCandidates(a) ==
  /\ a.status = "rejected"
  /\ a.reason[1].type = "PROCESSING_ERROR"

\* C12: an attempt whose category is left without candidates fails with an
\* error whose recoverable flag is true, and the orchestrator does not log it
\* as a fatal error when it processes the result.
C12_EmptyCandidatesRecoverable ==
  /\ \A i \in 1..Len(batch) :
       FailedOnEmptyCandidates(batch[i]) => batch[i].reason[1].recoverable
  /\ ( /\ pc = "process" /\ ri > 1 /\ ri - 1 <= Len(batch)
       /\ FailedOnEmptyCandidates(batch[ri - 1]) )
     => ~ fatalLogged

\* C13: generateCombinations never throws because of a failed attempt: a
\* rejected result, recoverable or not, is counted and discarded, the loop
\* moves on to the next result of the round, and the call is never left by
\* an exception.
C13_RejectedIsDiscarded ==
  [][ ( /\ pc = "process" /\ ri <= Len(batch)
        /\ batch[ri].status = "rejected" )
      => ( /\ pc' = "process"
           /\ ri' = ri + 1
           /\ attempts' = attempts + 1
           /\ combinations' = combinations
           /\ usedCombinations' = usedCombinations ) ]_vars

\* the call has returned a list shorter than count that holds the result
\* processed right after a rejected one, and a round ran after that round
C13_Witness ==
  /\ pc = "done"
  /\ count = 2
  /\ Len(combinations) = 1
  /\ combinations[1].id = 2
  /\ attempts > 2
  /\ fatalLogged

\* C14: while the catalog validation has not passed (it found errors, or
\* never ran), no generation attempt is launched and no operation returns
\* from generateCombinations, on any of the paths generate, generateMetadata
\* and previewTraits; an operation that has failed has failed with a
\* VALIDATION_ERROR.
C14_ValidationBlocks ==
  validationResult # "valid" =>
    /\ batch = << >>
    /\ pc # "done"
    /\ pc = "thrown" => error[1].type = "VALIDATION_ERROR"

\* while the rounds run, a cached type implies a valid validation result
CacheImpliesValid == traitCache # {} => validationResult = "valid"

\* C15: while no validateStructure call has completed with isValid = true,
\* getAvailableTraits throws a GeneratorError of type VALIDATION_ERROR and
\* returns no list, for every type name.
C15_ThrowsBeforeValidation ==
  (call.fn = "getAvailableTraits" /\ ~ validatedOnce)
    => (call.threw /\ call.value[1].type = "VALIDATION_ERROR")

\* getAvailableTraits has thrown after a validation that completed with errors
C15_Witness ==
  /\ call.fn = "getAvailableTraits"
  /\ call.arg = << "body" >>
  /\ call.threw
  /\ validationResult = "invalid"
  /\ ~ validatedOnce

\* C16: for a leaf with k > 0 original frames and a required count r >= 1,
\* loopFramesToRequiredCount returns exactly r entries, entry i (from 0) being
\* original frame i mod k.
C16_FramesLooped ==
  ( /\ call.fn = "loopFramesToRequiredCount"
    /\ call.value # << >>
    /\ Len(call.arg[1]) > 0 )
  => LET original == call.arg[1]
         r == call.arg[2]
         output == call.value[1]
     IN /\ Len(output) = r
        /\ \A i \in 0..(r - 1) : output[i + 1] = original[(i % Len(original)) + 1]

\* three frames looped to seven
C16_Witness ==
  /\ call.fn = "loopFramesToRequiredCount"
  /\ call.arg = << << "f0.png", "f1.png", "f2.png" >>, 7 >>
  /\ call.value = << << "f0.png", "f1.png", "f2.png", "f0.png", "f1.png", "f2.png",
                       "f0.png" >> >>

\* C17: weightedRandomSelect on two or more candidates whose weights are all
\* zero returns the last candidate in iteration order.
C17_AllZeroReturnsLast ==
  ( /\ call.fn = "weightedRandomSelect"
    /\ call.value # << >>
    /\ Len(call.arg[1]) >= 2
    /\ \A k \in 1..Len(call.arg[1]) : call.arg[1][k].weight = 0 )
  => call.value[1].trait = call.arg[1][Len(call.arg[1])]

\* C18: weightedRandomSelect on exactly one candidate returns that candidate
\* and performs no random draw, whatever the candidate's weight.
C18_SingleCandidate ==
  ( /\ call.fn = "weightedRandomSelect"
    /\ call.value # << >>
    /\ Len(call.arg[1]) = 1 )
  => /\ ~ call.threw
     /\ call.value[1].trait = call.arg[1][1]
     /\ call.value[1].randomCalls = 0

\* the only candidate, of weight 0, has been returned
C18_Witness ==
  /\ call.fn = "weightedRandomSelect"
  /\ Len(call.arg[1]) = 1
  /\ call.arg[1][1].weight = 0
  /\ call.value # << >>
  /\ call.value[1].trait = call.arg[1][1]

\* the tracker after recordCombination has been applied to the first k
\* combinations of the list, once each
RECURSIVE RecordedUpTo(_, _)
RecordedUpTo(list, k) ==
  IF k = 0 THEN NewRarityCalculator
  ELSE recordCombination(RecordedUpTo(list, k - 1), list[k])

\* C19: when generateCombinations has returned n combinations, the rarity
\* tracker holds what one recordCombination per accepted combination leaves:
\* a total of n, per 'category:name' key the number of accepted combinations
\* with that option, and 1 per signature.
C19_RecordedOnce ==
  pc = "done" => rarityTracker = RecordedUpTo(combinations, Len(combinations))

\* C20: calculateFinalRarities over M distinct combinations assigns ranks
\* that are a permutation of 1..M, a lower rank never has a smaller overall
\* score than a higher rank, and every percentile is rank / M * 100.
C20_RanksArePermutation ==
  (call.fn = "calculateFinalRarities" /\ call.value # << >>)
  => LET ranked == call.value[1]
         M == Len(call.arg[1])
     IN /\ Len(ranked) = M
        /\ { ranked[k].rank : k \in 1..M } = 1..M
        /\ \A j, k \in 1..M :
             /\ ranked[k].id = call.arg[1][k].id
             /\ ranked[k].overall = call.arg[1][k].overall
             /\ ranked[j].rank < ranked[k].rank => ranked[j].overall >= ranked[k].overall
             /\ ranked[k].percentile.num * M = ranked[k].rank * 100 * ranked[k].percentile.den

\* three combinations given in ascending score order with a tie have been
\* ranked
C20_Witness ==
  /\ call.fn = "calculateFinalRarities"
  /\ call.value # << >>
  /\ Len(call.arg[1]) = 3
  /\ call.arg[1][1].overall < call.arg[1][2].overall
  /\ call.arg[1][2].overall = call.arg[1][3].overall
  /\ call.value[1][1].rank = 3

\* C21: in calculateFinalRarities, combinations with equal overall score are
\* ranked in increasing order of their id, in whatever order the input list
\* is supplied.
C21_TiesRankedById ==
  (call.fn = "calculateFinalRarities" /\ call.value # << >>)
  => LET ranked == call.value[1]
     IN \A j, k \in 1..Len(ranked) :
          (ranked[j].overall = ranked[k].overall /\ ranked[j].id < ranked[k].id)
            => ranked[j].rank < ranked[k].rank

\* the options of a combination, as the set of its (category, name) pairs
OptionsOf(combination) ==
  { << combination.traits[k].type, combination.traits[k].name[1] >> :
      k \in 1..Len(combination.traits) }

\* the accepted list, as the set of the option sets of its combinations
Returned == { OptionsOf(combinations[k]) : k \in 1..Len(combinations) }

\* the two signatures of bg = {Red, Blue}, body = {Human}
RedAndBlue ==
  { { <<"bg", "Red">>, <<"body", "Human">> }, { <<"bg", "Blue">>, <<"body", "Human">> } }

\* C22: on bg = {Red, Blue}, body = {Human} without rules,
\* generateCombinations(2) returns exactly {Red,Human} and {Blue,Human},
\* generateCombinations(3) returns only those two, and the number returned
\* never exceeds the number of distinct signatures.
C22_Scenario ==
  pc = "done" => (Returned = RedAndBlue /\ Len(combinations) = 2)

\* C22, within the attempt budget: the call returns distinct combinations
\* among {Red,Human} and {Blue,Human}, never more than two; it returns fewer
\* than min(count, 2) only when count * 10 attempts are spent, and a call
\* for 3 always spends them.
C22_ScenarioWithinBudget ==
  /\ Returned \subseteq RedAndBlue
  /\ Len(combinations) = Cardinality(Returned)
  /\ pc = "done" =>
       /\ Len(combinations) < Min(count, 2) => attempts >= count * AttemptFactor
       /\ count = 3 => attempts >= count * AttemptFactor

\* the call for 3 has returned the two combinations there are
C22_Witness ==
  /\ pc = "done"
  /\ count = 3
  /\ Returned = RedAndBlue
  /\ duplicates > 0

\* C23: a leaf folder named 'Name#<weight>', Name holding no '#', yields an
\* option whose sampling weight is <weight> and whose name, as the rules
\* read it, is Name.
C23_HashWeight ==
  ( /\ call.fn = "parseTraitType"
    /\ call.value # << >>
    /\ hashMatch(call.arg[1]) # << >>
    /\ \A i \in 1..Len(hashMatch(call.arg[1])[1][1]) :
         hashMatch(call.arg[1])[1][1][i] # "#" )
  => LET named == hashMatch(call.arg[1])[1]
         option == call.value[1]
     IN /\ option.weight = parseInt(named[2])
        /\ beforeHash(option.name) = named[1]

\* the keys of a section (the key at path and those below it) are all there
\* when required and all satisfy their rules
SectionInRange(document, path) ==
  /\ path \in DOMAIN document
  /\ \A p \in Errors(document) : ~ (Len(p) >= Len(path) /\ SubSeq(p, 1, Len(path)) = path)

\* C24: validate accepts every configuration with in-range values for
\* generation, performance, animation, trait_processing_order,
\* incompatible_traits, forced_pairings and validation, and a metadata block
\* holding name_prefix, description, external_url, image_base_uri and
\* animation_base_uri, the optional rule tables being omitted.
C24_TestFormAccepted ==
  ( /\ call.fn = "validate"
    /\ call.value # << >>
    /\ \A section \in { <<"generation">>, <<"performance">>, <<"animation">>,
                        <<"trait_processing_order">>, <<"incompatible_traits">>,
                        <<"forced_pairings">>, <<"validation">> } :
         SectionInRange(call.arg[1], section)
    /\ \A field \in { "name_prefix", "description", "external_url", "image_base_uri",
                      "animation_base_uri" } :
         /\ << "metadata", field >> \in DOMAIN call.arg[1]
         /\ Satisfies(KeyAt(<< "metadata", field >>), call.arg[1][<< "metadata", field >>])
    /\ \A table \in { <<"dependent_traits">>, <<"exclusive_groups">>,
                      <<"conditional_rarity">> } :
         table \notin DOMAIN call.arg[1] )
  => ~ call.threw

\* a required top-level section is missing from the document
SectionMissing(document) ==
  \E key \in Schema : Len(key.path) = 1 /\ key.required /\ key.path \notin DOMAIN document

\* a number of the document is outside the range of its key
NumberOutOfRange(document) ==
  \E key \in Ranged :
    /\ key.path \in DOMAIN document
    /\ document[key.path].t = "number"
    /\ \/ document[key.path].n < key.lo
       \/ (key.kind # "integer from" /\ document[key.path].n > key.hi)

\* C25: validate accepts the configuration createDefaultConfig() returns, and
\* throws a GeneratorError of type CONFIG_ERROR whenever a required section
\* is missing or a numeric field is out of its range.
C25_DefaultAcceptedInvalidRejected ==
  (call.fn = "validate" /\ call.value # << >>)
  => /\ call.arg[1] = DefaultConfig => (~ call.threw /\ call.value[1] = DefaultConfig)
     /\ (SectionMissing(call.arg[1]) \/ NumberOutOfRange(call.arg[1]))
          => (call.threw /\ call.value[1].type = "CONFIG_ERROR")

\* validate has thrown on the default configuration with total_nfts = 0
C25_Witness ==
  /\ call.fn = "validate"
  /\ call.arg[1] = [DefaultConfig EXCEPT ![<<"generation", "total_nfts">>] = Num(0)]
  /\ call.threw
  /\ call.value[1].context.errors = { <<"generation", "total_nfts">> }

\* C26: Generator.generate runs clean output (skipped exactly when resume
\* is set), validate, metadata generation, frame compositing and animation
\* assembly in that order; a phase starts only after the previous one has
\* completed; when a phase throws no later phase starts and its error is
\* rethrown.
C26_PhasesInOrder ==
  /\ [](call.fn = "generate" =>
          /\ Len(call.started) <= Len(PhasesOf(call.arg[1]))
          /\ call.started = SubSeq(PhasesOf(call.arg[1]), 1, Len(call.started))
          /\ (call.arg[1] <=> ~ Includes(call.started, "cleanOutput"))
               \/ call.started = << >>
          /\ call.threw => (pc = "thrown" /\ error = call.value)
          /\ pc = "returned" => call.started = PhasesOf(call.arg[1]))
  /\ [][ /\ call'.started # call.started => (~ call.running /\ ~ call.threw)
         /\ pc = "thrown" => pc' = "thrown" ]_vars

\* a resumed call has been rejected with the error of its second phase
C26_Witness ==
  /\ pc = "thrown"
  /\ call.fn = "generate"
  /\ call.arg = << TRUE >>
  /\ call.started = << "validate", "generateMetadata" >>
  /\ error = call.value
  /\ error # << >>

\* C27: every round launches exactly min(50, count - accepted.length)
\* attempts, the accepted length being the one at the start of the round:
\* at least 1 and never more than the combinations still missing.
C27_RoundWidth ==
  [][ (pc = "loop" /\ pc' = "await")
      => /\ Len(batch') = Min(MaxBatch, count - Len(combinations))
         /\ Len(batch') >= 1
         /\ Len(batch') <= count - Len(combinations)
         /\ \A i \in 1..Len(batch') : batch'[i].status = "pending" ]_vars

\* a round of 50 attempts has been launched with more than 50 combinations
\* missing, after a round that accepted one
C27_Witness ==
  /\ pc = "await"
  /\ Len(combinations) = 1
  /\ count - Len(combinations) > MaxBatch
  /\ Len(batch) = MaxBatch
  /\ \A i \in 1..Len(batch) : batch[i].status = "pending"

\* the results of the first round that the for loop has gone through and
\* that were rejected
FailedInFirstRound == { i \in 1..(ri - 1) : batch[i].status = "rejected" }

\* C28: each settled attempt raises the attempt counter by exactly one and
\* is accepted, counted as a duplicate or discarded as failed, exactly one of
\* the three, so attempts = accepted + duplicates + failed after every
\* processed result; a signature is in the seen set exactly when an accepted
\* combination has it.
C28_SettlementAccounting ==
  /\ [](/\ usedCombinations =
             { getCombinationKey(combinations[k]) : k \in 1..Len(combinations) }
        /\ attempts >= Len(combinations) + duplicates
        /\ (pc \in {"process", "loop"} /\ attempts = ri - 1)
             => attempts = Len(combinations) + duplicates + Cardinality(FailedInFirstRound))
  /\ [][ IF pc = "process" /\ ri <= Len(batch)
         THEN LET result == batch[ri]
                  key == getCombinationKey([traits |-> result.selectedTraits])
                  accepted == /\ result.status = "fulfilled"
                              /\ key \notin usedCombinations
                              /\ Len(combinations') = Len(combinations) + 1
                              /\ getCombinationKey(combinations'[Len(combinations')]) = key
                              /\ usedCombinations' = usedCombinations \cup {key}
                              /\ duplicates' = duplicates
                  duplicate == /\ result.status = "fulfilled"
                               /\ key \in usedCombinations
                               /\ duplicates' = duplicates + 1
                               /\ combinations' = combinations
                               /\ usedCombinations' = usedCombinations
                  failed == /\ result.status = "rejected"
                            /\ duplicates' = duplicates
                            /\ combinations' = combinations
                            /\ usedCombinations' = usedCombinations
              IN /\ attempts' = attempts + 1
                 /\ ri' = ri + 1
                 /\ accepted \/ duplicate \/ failed
         ELSE /\ attempts' = attempts
              /\ duplicates' = duplicates
              /\ combinations' = combinations
              /\ usedCombinations' = usedCombinations ]_vars

\* three results settled, one of each outcome
C28_Witness ==
  /\ attempts = 3
  /\ Len(combinations) = 1
  /\ duplicates = 1
  /\ usedCombinations = { getCombinationKey(combinations[1]) }

\* C29: applyIncompatibilityRules removes a candidate whenever an
\* incompatible_traits entry declared under the compound key or the bare
\* name of a selected option lists the candidate by either key form, or an
\* entry of the candidate lists the selected option, also when entries exist
\* under both key forms of the same option.
C29_IncompatibleRemoved ==
  (call.fn = "applyIncompatibilityRules" /\ call.value # << >>)
    => \A t \in Elems(call.arg[1]) : \A selected \in Elems(call.arg[2]) :
         \A K \in DOMAIN config.incompatible_traits :
           \A l \in 1..Len(config.incompatible_traits[K]) :
             ( \/ /\ OptionMatches(selected, K)
                  /\ OptionMatches(t, config.incompatible_traits[K][l])
               \/ /\ OptionMatches(t, K)
                  /\ OptionMatches(selected, config.incompatible_traits[K][l]) )
             => ~ Includes(call.value[1], t)

\* C30: for every named group with a member matching an already-selected
\* option, applyExclusiveGroupRules removes every candidate matching a
\* member of that group, whichever category is processed and however many
\* groups there are.
C30_GroupMembersRemoved ==
  (call.fn = "applyExclusiveGroupRules" /\ call.value # << >>)
    => \A g \in 1..Len(config.exclusive_groups) :
         LET group == config.exclusive_groups[g][2]
         IN (\E selected \in Elems(call.arg[3]) :
               \E m \in 1..Len(group) : OptionMatches(selected, group[m]))
            => \A t \in Elems(call.arg[2]) :
                 (\E m \in 1..Len(group) : OptionMatches(t, group[m]))
                   => ~ Includes(call.value[1], t)

\* the options the layers directory holds, whatever the category
BaseOptions == UNION { Elems(BaseCatalog[c]) : c \in DOMAIN BaseCatalog }

\* C31: applyConditionalRarity never changes the weight of an option held by
\* the catalog or the per-category caches: every option of every cached
\* list keeps the weight it was parsed with, in every later step and attempt,
\* and the overridden weight is found on the attempt's own copy only.
C31_BaseWeightsKept ==
  /\ \A c \in DOMAIN catalog : \A k \in 1..Len(catalog[c]) : catalog[c][k] \in BaseOptions
  /\ \A i \in 1..Len(batch) : \A k \in 1..Len(batch[i].selectedTraits) :
       LET t == batch[i].selectedTraits[k]
       IN t \in BaseOptions
          \/ /\ \E b \in BaseOptions : b.type = t.type /\ b.name = t.name
             /\ \E r \in 1..Len(config.conditional_rarity) :
                  \E j \in 1..Len(config.conditional_rarity[r][2]) :
                    /\ OptionMatches(t, config.conditional_rarity[r][2][j][1])
                    /\ t.weight = config.conditional_rarity[r][2][j][2]

\* one attempt of the round selected Robot with the overridden weight 0, a
\* later one selected it with its base weight, and the catalog has it with
\* its base weight
C31_Witness ==
  /\ \E i, j \in 1..Len(batch) :
       /\ i < j
       /\ Includes(batch[i].selectedTraits, Trait("body", <<"Robot">>, 0))
       /\ batch[i].status = "fulfilled"
       /\ Includes(batch[j].selectedTraits, Trait("body", <<"Robot">>, 1))
  /\ Includes(catalog["body"], Trait("body", <<"Robot">>, 1))
  /\ config.conditional_rarity # << >>

\* the state the orchestrator owns: accepted list, seen signatures, counters
Owned == << combinations, usedCombinations, attempts, duplicates >>

\* C32: while the attempts of a round are in flight the accepted list, the
\* seen-signatures set, the attempt counter and the duplicate counter are
\* unchanged under every interleaving: only the settlement loop writes
\* them, and it runs when no attempt of the round is pending.
C32_OnlySettlementWrites ==
  /\ [](pc = "process" => \A i \in 1..Len(batch) : batch[i].status # "pending")
  /\ [][ /\ pc = "await" => Owned' = Owned
         /\ (\E i \in 1..Len(batch) : batch[i].status = "pending") => Owned' = Owned
         /\ Owned' # Owned => (pc = "process" /\ pc' = "process" /\ ri' = ri + 1) ]_vars

\* a round of two attempts in flight, the second having selected its first
\* option before the first has selected any, after an earlier round
C32_Witness ==
  /\ pc = "await"
  /\ Len(batch) = 2
  /\ batch[1].status = "pending" /\ batch[1].selectedTraits = << >>
  /\ batch[2].status = "pending" /\ Len(batch[2].selectedTraits) = 1
  /\ attempts > 0

\* C33: after a successful validation getAvailableTraits(category) returns
\* exactly the leaf options found under the category, each once and tagged
\* with the category, the empty list for an unknown category, and the same
\* list again on a repeated call.
C33_LeavesServedOnce ==
  validationResult = "valid" =>
    \A traitType \in traitCache \cup DOMAIN BaseCatalog \cup {"Robot"} :
      LET served == getAvailableTraits(catalog, traitType)
      IN /\ \A i, j \in 1..Len(served) : served[i] = served[j] => i = j
         /\ \A k \in 1..Len(served) : served[k].type = traitType
         /\ Elems(served) = IF traitType \in DOMAIN BaseCatalog
                            THEN Elems(BaseCatalog[traitType]) ELSE {}

\* the name and the weight of the trait folders of the model, as their
\* names read
Named ==
  (<<"a">> :> [name |-> <<"a">>, weight |-> 1])
  @@ (<<"a", "(", "0", ")">> :> [name |-> <<"a">>, weight |-> 0])
  @@ (<<"b", "(", "2", ")">> :> [name |-> <<"b">>, weight |-> 2])
  @@ (<<"b", "(", "2", "0", "0", "0", "0", ")">> :> [name |-> <<"b">>, weight |-> 20000])
  @@ (<<"c">> :> [name |-> <<"c">>, weight |-> 1])
  @@ (<<"d", "(", "2", "0", ")">> :> [name |-> <<"d">>, weight |-> 20])
  @@ (<<"d">> :> [name |-> <<"d">>, weight |-> 1])
  @@ (<<"e">> :> [name |-> <<"e">>, weight |-> 1])

InRange(weight) == weight >= 1 /\ weight <= 10000

\* every folder of entries that holds images only is in traits under its
\* name with its weight (the last folder of a name is the one that stays),
\* and a weight out of range is among the errors
FoldersPlaced(entries, traits, errors) ==
  \A k \in 1..Len(entries) :
    entries[k].isDirectory =>
      LET folder == entries[k]
          named == Named[folder.name]
          last == \A j \in (k + 1)..Len(entries) :
                    entries[j].isDirectory => Named[entries[j].name].name # named.name
          leaf == hasImageFiles(folder.entries) /\ ~ hasSubdirectories(folder.entries)
      IN /\ ~ InRange(named.weight) => Includes(errors, "Invalid weight")
         /\ (leaf /\ last) =>
              \E i \in 1..Len(traits) :
                /\ traits[i][1] = named.name
                /\ traits[i][2].weight = named.weight
                /\ traits[i][2].frames # << >>

\* C34: a folder 'name(w)' is parsed to weight w and a folder without the
\* suffix to weight 1; a weight outside [1,10000] is recorded as an error
\* while the option is still placed in the hierarchy, the error makes the
\* validation result invalid, and every option getAvailableTraits ever
\* serves has a weight in [1,10000].
C34_WeightsInRange ==
  /\ (call.fn = "validateStructure" /\ ~ call.threw) =>
       LET entries == call.arg[1].entries[1].entries
           errors == call.value[1].errors
       IN /\ FoldersPlaced(entries, hierarchy["bg"], errors)
          /\ \A k \in 1..Len(entries) :
               (entries[k].isDirectory /\ hasSubdirectories(entries[k].entries)
                  /\ ~ hasImageFiles(entries[k].entries))
               => \E i \in 1..Len(hierarchy["bg"]) :
                    /\ hierarchy["bg"][i][1] = Named[entries[k].name].name
                    /\ FoldersPlaced(entries[k].entries,
                                     hierarchy["bg"][i][2].subTraits, errors)
          /\ errors # << >> => (~ call.value[1].isValid /\ validationResult = "invalid")
  /\ \A c \in DOMAIN catalog : \A k \in 1..Len(catalog[c]) : InRange(catalog[c][k].weight)
  /\ (call.fn = "getAvailableTraits" /\ ~ call.threw) =>
       \A k \in 1..Len(call.value[1]) : InRange(call.value[1][k].weight)

\* a directory with the folders b(2) and b(20000) has been validated: the
\* option b is in the hierarchy with weight 20000 and the result is invalid;
\* options of an earlier directory, with weights 1 and 20, are in the cache
C34_Witness ==
  /\ call.fn = "validateStructure"
  /\ ~ call.threw
  /\ Includes(call.value[1].errors, "Invalid weight")
  /\ validationResult = "invalid"
  /\ \E i \in 1..Len(hierarchy["bg"]) :
       hierarchy["bg"][i] = << <<"b">>, LeafNode(20000, [k \in 1..RequiredFrameCount |-> "f0.png"]) >>
  /\ "bg" \in traitCache
  /\ catalog["bg"] = << Trait("bg", <<"a">>, 1), Trait("bg", <<"d">>, 20) >>

\* C38: getAvailableTraits(category) reflects the most recent validation:
\* under a result that is not valid the call throws, under a valid one it
\* returns the leaf options of the hierarchy parsed last ([] for a category
\* the hierarchy does not have), also for a category served before.
C38_ReflectsLatestValidation ==
  call.fn = "getAvailableTraits" =>
    LET traitType == call.arg[1]
    IN IF validationResult # "valid"
       THEN call.threw
       ELSE /\ ~ call.threw
            /\ call.value[1] = IF traitType \in DOMAIN hierarchy
                               THEN collectLeafTraits(hierarchy[traitType], traitType)
                               ELSE << >>

\* C35: the ids of the combinations accepted by one generateCombinations
\* call are pairwise distinct, so that the files '<id>.json' written for
\* them are as many as the combinations.
C35_IdsDistinct ==
  \A i, j \in 1..Len(combinations) :
    combinations[i].id = combinations[j].id => i = j

C37_SeenOnlyGrows ==
  /\ [](\A k \in 1..Len(combinations) :
          getCombinationKey(combinations[k]) \in usedCombinations)
  /\ [][ /\ usedCombinations \subseteq usedCombinations'
         /\ Len(combinations') > Len(combinations) =>
              LET key == getCombinationKey(combinations'[Len(combinations')])
              IN key \notin usedCombinations /\ key \in usedCombinations'
       ]_vars

\* a later call for 2 has returned nothing although the directory has two
\* signatures: both were accepted by earlier calls
C37_Witness ==
  /\ pc = "done"
  /\ count = 2
  /\ combinations = << >>
  /\ attempts >= count * AttemptFactor
  /\ Cardinality(usedCombinations) = 2

\* a thrown updateStep carries the PROCESSING_ERROR and has left no progress
ThrownWithoutProgress ==
  (call.fn = "updateStep" /\ call.threw) =>
    (progress = << >> /\ call.value = << ProcessingError >>)

\* one call on the ProgressTracker: the progress comes into being only by
\* saveProgress, addError or a loadProgress that returns the file's content,
\* and is there after saveProgress and addError, which do not throw;
\* updateStep throws and leaves null when there is no progress, and else
\* sets currentStep, renews lastCheckpoint and keeps completed, total,
\* errors and startTime
TrackerCall ==
  /\ (progress = << >> /\ progress' # << >>) =>
       \/ call'.fn \in {"saveProgress", "addError"}
       \/ call'.fn = "loadProgress" /\ call'.value # << >>
  /\ call'.fn \in {"saveProgress", "addError"} => (progress' # << >> /\ ~ call'.threw)
  /\ call'.fn = "updateStep" =>
       IF progress = << >>
       THEN call'.threw /\ progress' = << >>
       ELSE /\ ~ call'.threw
            /\ progress'[1].currentStep = call'.arg[1]
            /\ progress'[1].completed = progress[1].completed
            /\ progress'[1].total = progress[1].total
            /\ progress'[1].errors = progress[1].errors
            /\ progress'[1].startTime = progress[1].startTime
            /\ progress'[1].lastCheckpoint[1] = "Date"

\* C39 as stated: updateStep throws PROCESSING_ERROR and leaves the progress
\* null whenever no saveProgress, addError or successful loadProgress has
\* happened since construction or since the last clearProgress, so that
\* every clearProgress leaves the progress null; after saveProgress or
\* addError the progress is there, updateStep keeps completed, total and
\* errors, and saveProgress never throws.
C39_EveryClearResets ==
  /\ []ThrownWithoutProgress
  /\ [][TrackerCall /\ (call'.fn = "clearProgress" => progress' = << >>)]_vars

\* C39, amended: as stated, but counted from construction or from the last
\* clearProgress that found no checkpoint file or removed it; a
\* clearProgress whose removal of the file fails leaves the progress and the
\* file as they were and does not throw.
C39_ClearResetsUnlessRemovalFails ==
  /\ []ThrownWithoutProgress
  /\ [][ /\ TrackerCall
         /\ call'.fn = "clearProgress" =>
              /\ ~ call'.threw
              /\ \/ progress' = << >> /\ checkpointFile' = << >>
                 \/ /\ checkpointFile # << >>
                    /\ progress' = progress
                    /\ checkpointFile' = checkpointFile
       ]_vars

\* updateStep('frames') has returned on a progress of 2 of 2 with one error,
\* whose write failed before: the step is set, the rest is kept and the
\* file still holds no step 'frames'
C39_Witness ==
  /\ call.fn = "updateStep"
  /\ ~ call.threw
  /\ progress # << >>
  /\ progress[1].currentStep = "frames"
  /\ progress[1].completed = 2
  /\ progress[1].total = 2
  /\ progress[1].errors = << FileError >>
  /\ checkpointFile = << >>

====
